---- MODULE Spec2Model ----
(***************************************************************************)
(* palimp (cmd/palimp): listing, landing, updating and dropping sketch/*   *)
(* branches.  The repository is the state; every git command the program   *)
(* runs is an operator from a repository to a repository and an output.    *)
(*                                                                         *)
(* A commit hash is modelled by what it names: the linear history from the *)
(* root commit to that commit (palimp never creates a merge commit), so    *)
(* the parent of a hash is the history without its last entry and the      *)
(* ancestors of a commit are the prefixes of its history.  A tree maps     *)
(* each file to its content; the three-way merge works file by file.       *)
(***************************************************************************)
EXTENDS Integers, Sequences, FiniteSets, TLC

VARIABLES repo, made, last

vars == <<repo, made, last>>

\* ------------------------------------------------------------------ bounds
\* Commits the user (or the agent) makes by hand in one behaviour.
MaxCommits == 3

\* palimp is only run while no branch is longer than this (land -force run
\* on the source branch itself can lengthen it again and again).
MaxHistory == 5

\* ------------------------------------------------------------ small helpers
Range(s) == {s[i] : i \in 1..Len(s)}

Front(s) == SubSeq(s, 1, Len(s) - 1)

Last(s) == s[Len(s)]

Min(S) == CHOOSE x \in S : \A y \in S : x <= y

Max(S) == CHOOSE x \in S : \A y \in S : y <= x

\* ----------------------------------------------------------------- objects
Files == {"f", "g"}

Tokens == {"I1", "I2"}

\* An empty Change-Id value ("Change-Id: " followed by nothing).
NoValue == ""

EmptyTree == [x \in Files |-> 0]

\* A line of a commit message: key is the text up to and including the
\* first ": " (or the whole start of a line that has none), val what
\* follows it.
Line(k, v) == [key |-> k, val |-> v]

ChangeIdLine(t) == Line("Change-Id: ", t)

\* ------------------------------------------------------------ branch names
\* A name is the sequence of its "/"-separated components.
Main == <<"main">>

SketchA == <<"sketch", "a">>

RefNames == {Main, SketchA}

mainBranches == << <<"main">>, <<"master">>, <<"trunk">>, <<"develop">>, <<"default">>, <<"stable">> >>

ongoingOps == <<"MERGE_HEAD", "CHERRY_PICK_HEAD", "REVERT_HEAD", "BISECT_LOG", "rebase-merge", "rebase-apply">>

\* A normalisation that prefixes every name.
normalizeAlwaysPrefixes(branch) == <<"sketch">> \o branch

\* A normalisation that takes the name as it is typed.
normalizeKeepsName(branch) == branch

normalizeSketchBranch(branch) ==
    IF Len(branch) >= 2 /\ branch[1] = "sketch" THEN branch ELSE <<"sketch">> \o branch

\* git show-ref --verify --quiet refs/heads/<name>
BranchExists(R, name) == name \in DOMAIN R.refs /\ R.refs[name] # <<>>

\* ------------------------------------------------------------- git objects
TreeOf(hash) == Last(hash).tree

HasParent(hash) == Len(hash) >= 2

\* A hash names an object of the repository.
IsCommit(hash) == Len(hash) >= 1

ParentTree(hash) == IF HasParent(hash) THEN TreeOf(Front(hash)) ELSE EmptyTree

IsPrefix(p, h) == Len(p) <= Len(h) /\ SubSeq(h, 1, Len(p)) = p

\* Length of the longest common prefix of two histories.
CommonLen(h1, h2) ==
    Max({k \in 0..Len(h1) : k <= Len(h2) /\ SubSeq(h1, 1, k) = SubSeq(h2, 1, k)})

\* git merge-base a b: the nearest common ancestor; fails without one.
MergeBase(h1, h2) ==
    [ok |-> CommonLen(h1, h2) >= 1, hash |-> SubSeq(h1, 1, CommonLen(h1, h2))]

\* The three-way merge of trees, file by file: a file both sides changed,
\* differently, conflicts.
Merge3(base, ours, theirs) ==
    LET clash == {x \in Files : ours[x] # base[x] /\ theirs[x] # base[x] /\ ours[x] # theirs[x]}
    IN  [ok |-> clash = {},
         tree |-> [x \in Files |-> IF theirs[x] = base[x] THEN ours[x] ELSE theirs[x]]]

\* --------------------------------------------------- Change-Id extraction
\* strings.TrimSpace on the start of a line.
TrimLeft(k) ==
    CASE k = "  Change-Id: " -> "Change-Id: "
      [] OTHER -> k

\* strings.TrimSpace on what follows the key.
TrimSpace(v) ==
    CASE v = " I1 " -> "I1"
      [] v = "  " -> ""
      [] OTHER -> v

Lower(k) ==
    CASE k = "Change-Id: " -> "change-id: "
      [] k = "CHANGE-ID: " -> "change-id: "
      [] k = "Change-Id:" -> "change-id:"
      [] k = "Fixes Change-Id: " -> "fixes change-id: "
      [] k = "Signed-off-by: " -> "signed-off-by: "
      [] OTHER -> k

\* An extraction that stops at the first trailer it finds.
RECURSIVE extractFirstChangeID(_)
extractFirstChangeID(lines) ==
    IF lines = <<>> THEN <<>>
    ELSE LET l == Head(lines)
         IN  IF Lower(TrimLeft(l.key)) = "change-id: " /\ TrimSpace(l.val) # NoValue
             THEN <<TrimSpace(l.val)>>
             ELSE extractFirstChangeID(Tail(lines))

RECURSIVE extractChangeIDs(_)
extractChangeIDs(lines) ==
    IF lines = <<>> THEN <<>>
    ELSE LET l == Head(lines)
             rest == extractChangeIDs(Tail(lines))
         IN  IF Lower(TrimLeft(l.key)) # "change-id: " THEN rest
             ELSE IF TrimSpace(l.val) # NoValue THEN <<TrimSpace(l.val)>> \o rest ELSE rest

\* git log -1 --format=%s%n%b: the subject line, then the body.
MessageLines(entry) == <<Line(entry.subj, NoValue)>> \o entry.body

getCommitInfo(hash) ==
    [Hash |-> hash,
     Subject |-> Last(hash).subj,
     ChangeIDs |-> extractChangeIDs(MessageLines(Last(hash)))]

\* ------------------------------------------------------------ reading refs
\* The commit a ref name resolves to; <<>> when it resolves to nothing.
Resolve(R, name) ==
    IF name = <<"HEAD">> THEN R.refs[R.HEAD]
    ELSE IF BranchExists(R, name) THEN R.refs[name] ELSE <<>>

\* A detection that prefers the branch that is checked out.
findMainBranchPrefersCurrent(R) ==
    LET found == {i \in 1..Len(mainBranches) : BranchExists(R, mainBranches[i])}
    IN  IF found = {} THEN [err |-> "no main branch found", branch |-> <<>>]
        ELSE IF \E i \in found : mainBranches[i] = R.HEAD THEN [err |-> "", branch |-> R.HEAD]
        ELSE [err |-> "", branch |-> mainBranches[Min(found)]]

findMainBranch(R) ==
    LET found == {i \in 1..Len(mainBranches) : BranchExists(R, mainBranches[i])}
    IN  IF found = {} THEN [err |-> "no main branch found", branch |-> <<>>]
        ELSE [err |-> "", branch |-> mainBranches[Min(found)]]

\* git rev-parse --abbrev-ref HEAD
getCurrentBranch(R) == R.HEAD

checkMainBranch(R) ==
    IF findMainBranch(R).err # "" THEN findMainBranch(R).err
    ELSE IF getCurrentBranch(R) # findMainBranch(R).branch THEN "must be on main branch"
    ELSE ""

\* A repository-state check that looks at the index and the working tree only.
checkRepoStateNoMarkers(R) ==
    IF R.wt \in {"staged", "unmerged"} THEN "repository has staged changes"
    ELSE IF R.wt = "unstaged" THEN "repository has unstaged changes"
    ELSE ""

checkRepoState(R) ==
    IF \E i \in 1..Len(ongoingOps) : ongoingOps[i] \in R.markers
    THEN "repository has ongoing git operation"
    ELSE IF R.wt \in {"staged", "unmerged"} THEN "repository has staged changes"
    ELSE IF R.wt = "unstaged" THEN "repository has unstaged changes"
    ELSE ""

\* git rev-list --reverse <excluded>..<b>, then getCommitInfo of each hash;
\* k is the number of commits the two histories share.
RevList(b, k) == [i \in 1..(Len(b) - k) |-> getCommitInfo(SubSeq(b, 1, k + i))]

getCommitsInBranch(R, branchName) ==
    IF findMainBranch(R).err # "" THEN [err |-> findMainBranch(R).err, commits |-> <<>>]
    ELSE IF ~IsCommit(Resolve(R, branchName))
    THEN [err |-> "failed to get commits", commits |-> <<>>]
    ELSE [err |-> "",
          commits |-> RevList(Resolve(R, branchName),
                              CommonLen(Resolve(R, findMainBranch(R).branch),
                                        Resolve(R, branchName)))]

\* git log --format=%b <range>: the body lines of the commits of hash that
\* are not among its first `from` commits.
RECURSIVE LogBodies(_, _)
LogBodies(hash, from) ==
    IF Len(hash) <= from THEN <<>>
    ELSE Last(hash).body \o LogBodies(Front(hash), from)

\* A range that is always the whole history of the ref.
LogRangeWholeHistory(sourceBranch, mb) == 0

\* The range getChangeIDsInRef logs, as the number of commits of the ref
\* left out: mergeBase^..ref, mergeBase..ref when the merge-base is a root,
\* the whole history without a source branch or a merge-base.
LogRange(sourceBranch, mb) ==
    IF sourceBranch = <<>> \/ ~mb.ok THEN 0
    ELSE IF HasParent(mb.hash) THEN Len(mb.hash) - 1
    ELSE Len(mb.hash)

getChangeIDsInRef(R, ref, sourceBranch) ==
    IF ~IsCommit(Resolve(R, ref)) THEN [err |-> "failed to get commits", ids |-> {}]
    ELSE [err |-> "",
          ids |-> Range(extractChangeIDs(LogBodies(Resolve(R, ref),
                           LogRange(sourceBranch,
                                    MergeBase(Resolve(R, ref), Resolve(R, sourceBranch))))))]

\* A filter that looks at the first Change-Id of a commit only.
filterByFirstChangeID(commits, mainChangeIDs) ==
    LET keep(c) == Len(c.ChangeIDs) = 0 \/ c.ChangeIDs[1] \notin mainChangeIDs
    IN  SelectSeq(commits, keep)

filterNewCommits(commits, mainChangeIDs) ==
    LET isInMain(c) == \E i \in 1..Len(c.ChangeIDs) : c.ChangeIDs[i] \in mainChangeIDs
        keep(c) == Len(c.ChangeIDs) = 0 \/ ~isInMain(c)
    IN  SelectSeq(commits, keep)

\* ------------------------------------------------------------ the analysis
\* git merge-tree --write-tree --merge-base <hash>^ <currentBase> <hash>.
\* It writes tree objects only: no ref, index or working tree changes.
GitMergeTree(R, hash, currentBase) ==
    IF IsCommit(hash) /\ HasParent(hash)
    THEN [R |-> R,
          ok |-> Merge3(ParentTree(hash), TreeOf(currentBase), TreeOf(hash)).ok,
          tree |-> Merge3(ParentTree(hash), TreeOf(currentBase), TreeOf(hash)).tree]
    ELSE [R |-> R, ok |-> FALSE, tree |-> EmptyTree]

\* A commit made of the tree on the current branch (what "git commit" does,
\* where commit-tree only writes an object).
GitCommitTreeMovesHead(R, tree, parent, env) ==
    [R |-> [R EXCEPT !.refs[R.HEAD] =
                Append(parent, [tree |-> tree, subj |-> "temp", body |-> <<>>])],
     ok |-> env.commitTree,
     hash |-> Append(parent, [tree |-> tree, subj |-> "temp", body |-> <<>>])]

\* git commit-tree <tree> -p <parent> -m temp: an anonymous commit object.
GitCommitTree(R, tree, parent, env) ==
    [R |-> R, ok |-> env.commitTree,
     hash |-> Append(parent, [tree |-> tree, subj |-> "temp", body |-> <<>>])]

NoConflict == <<>>

\* No analysis was made.
NoAnalysis(R) ==
    [err |-> "", ValidCommits |-> <<>>, FirstConflict |-> <<>>, ConflictError |-> <<>>,
     R |-> R, filtered |-> <<>>]

\* A CommitAnalysis, with the repository the analysis leaves and the list
\* it walked (commitsAfterChangeIdFilter).
Analysis(R, filtered, valid, conflict, cerr) ==
    [err |-> "", ValidCommits |-> valid, FirstConflict |-> conflict,
     ConflictError |-> cerr, R |-> R, filtered |-> filtered]

RECURSIVE analyzeLoop(_, _, _, _, _, _)

\* An iteration that never advances the base.
analyzeAdvanceKeepsBase(R, filtered, i, currentBase, validCommits, env, ct) ==
    analyzeLoop(R, filtered, i + 1, currentBase, validCommits, env)

\* An iteration that always takes the accepted commit itself as the base.
analyzeAdvanceOntoCommit(R, filtered, i, currentBase, validCommits, env, ct) ==
    IF Len(validCommits) > 0 /\ Last(validCommits).Hash = filtered[i].Hash
    THEN analyzeLoop(R, filtered, i + 1, filtered[i].Hash, validCommits, env)
    ELSE analyzeLoop(R, filtered, i + 1, currentBase, validCommits, env)

\* The end of one iteration: validCommits is what the iteration made of
\* the list; when its last element is this commit, the base advances to
\* the temporary commit ct, or to the commit itself if commit-tree failed.
analyzeAdvance(R, filtered, i, currentBase, validCommits, env, ct) ==
    IF Len(validCommits) > 0 /\ Last(validCommits).Hash = filtered[i].Hash
    THEN analyzeLoop(ct.R, filtered, i + 1,
                     IF ct.ok THEN ct.hash ELSE filtered[i].Hash, validCommits, env)
    ELSE analyzeLoop(R, filtered, i + 1, currentBase, validCommits, env)

\* An iteration that counts the conflicting commit among the valid ones.
analyzeMergedKeepsConflict(filtered, i, currentBase, valid, env, mt) ==
    IF ~mt.ok
    THEN Analysis(mt.R, filtered, Append(valid, filtered[i]), <<filtered[i]>>,
                  <<[pos |-> i, total |-> Len(filtered),
                     hash |-> filtered[i].Hash, subject |-> filtered[i].Subject]>>)
    ELSE analyzeAdvance(mt.R, filtered, i, currentBase,
                        IF TreeOf(currentBase) = mt.tree THEN valid
                        ELSE Append(valid, filtered[i]),
                        env, GitCommitTree(mt.R, mt.tree, currentBase, env))

\* An iteration without the detection of commits that change nothing.
analyzeMergedKeepsNoOps(filtered, i, currentBase, valid, env, mt) ==
    IF ~mt.ok
    THEN Analysis(mt.R, filtered, valid, <<filtered[i]>>,
                  <<[pos |-> i, total |-> Len(filtered),
                     hash |-> filtered[i].Hash, subject |-> filtered[i].Subject]>>)
    ELSE analyzeAdvance(mt.R, filtered, i, currentBase, Append(valid, filtered[i]),
                        env, GitCommitTree(mt.R, mt.tree, currentBase, env))

\* A merge-tree that exits with status 0 and prints no tree.
NoOutput == [x \in Files |-> -1]

\* An iteration that leaves out a commit merge-tree failed on and walks on.
analyzeMergedSkipsFailure(filtered, i, currentBase, valid, env, mt) ==
    IF ~mt.ok \/ mt.tree = NoOutput
    THEN analyzeLoop(mt.R, filtered, i + 1, currentBase, valid, env)
    ELSE analyzeAdvance(mt.R, filtered, i, currentBase,
                        IF TreeOf(currentBase) = mt.tree THEN valid
                        ELSE Append(valid, filtered[i]),
                        env, GitCommitTree(mt.R, mt.tree, currentBase, env))

\* One iteration, once merge-tree has answered mt for filtered[i].
analyzeMerged(filtered, i, currentBase, valid, env, mt) ==
    IF ~mt.ok \/ mt.tree = NoOutput
    THEN Analysis(mt.R, filtered, valid, <<filtered[i]>>,
                  <<[pos |-> i, total |-> Len(filtered),
                     hash |-> filtered[i].Hash, subject |-> filtered[i].Subject]>>)
    ELSE analyzeAdvance(mt.R, filtered, i, currentBase,
                        IF TreeOf(currentBase) = mt.tree THEN valid
                        ELSE Append(valid, filtered[i]),
                        env, GitCommitTree(mt.R, mt.tree, currentBase, env))

\* The loop of analyzeCommits over commitsAfterChangeIdFilter, from index i.
analyzeLoop(R, filtered, i, currentBase, valid, env) ==
    IF i > Len(filtered) THEN Analysis(R, filtered, valid, NoConflict, <<>>)
    ELSE analyzeMerged(filtered, i, currentBase, valid, env,
                       GitMergeTree(R, filtered[i].Hash, currentBase))

\* An analysis that gives up when merge-tree is not available.
analyzeFilteredNeedsMergeTree(R, mainRef, env, commitsAfterChangeIdFilter) ==
    IF Len(commitsAfterChangeIdFilter) = 0
    THEN Analysis(R, <<>>, <<>>, NoConflict, <<>>)
    ELSE IF ~env.mergeTree
    THEN [Analysis(R, commitsAfterChangeIdFilter, <<>>, NoConflict, <<>>)
             EXCEPT !.err = "merge-tree not available"]
    ELSE analyzeLoop(R, commitsAfterChangeIdFilter, 1, Resolve(R, mainRef), <<>>, env)

\* analyzeCommits once the Change-Id filter has run.
analyzeFiltered(R, mainRef, env, commitsAfterChangeIdFilter) ==
    IF Len(commitsAfterChangeIdFilter) = 0
    THEN Analysis(R, <<>>, <<>>, NoConflict, <<>>)
    ELSE IF ~env.mergeTree
    THEN Analysis(R, commitsAfterChangeIdFilter, commitsAfterChangeIdFilter, NoConflict, <<>>)
    ELSE analyzeLoop(R, commitsAfterChangeIdFilter, 1, Resolve(R, mainRef), <<>>, env)

analyzeCommits(R, commits, mainRef, sourceBranch, env) ==
    IF getChangeIDsInRef(R, mainRef, sourceBranch).err # ""
    THEN [err |-> "failed to get change-ids", ValidCommits |-> <<>>,
          FirstConflict |-> NoConflict, ConflictError |-> <<>>, R |-> R,
          filtered |-> <<>>]
    ELSE analyzeFiltered(R, mainRef, env,
             filterNewCommits(commits, getChangeIDsInRef(R, mainRef, sourceBranch).ids))

\* validateGitOperation once the analysis is there.
validateAnalysed(analysis) ==
    IF analysis.err # ""
    THEN [err |-> analysis.err, R |-> analysis.R, analysis |-> analysis]
    ELSE IF analysis.FirstConflict # NoConflict
    THEN [err |-> "merge conflict detected", R |-> analysis.R, analysis |-> analysis]
    ELSE [err |-> "", R |-> analysis.R, analysis |-> analysis]

\* A validation whose analysis is scoped to the sketch branch.
validateGitOperationScoped(R, commits, env) ==
    IF findMainBranch(R).err # ""
    THEN [err |-> findMainBranch(R).err, R |-> R, analysis |-> NoAnalysis(R)]
    ELSE validateAnalysed(analyzeCommits(R, commits, findMainBranch(R).branch, SketchA, env))

validateGitOperation(R, commits, env) ==
    IF findMainBranch(R).err # ""
    THEN [err |-> findMainBranch(R).err, R |-> R, analysis |-> NoAnalysis(R)]
    ELSE validateAnalysed(analyzeCommits(R, commits, findMainBranch(R).branch, <<>>, env))

\* ------------------------------------------------- commands that mutate
Commit(tree, subj, body) == [tree |-> tree, subj |-> subj, body |-> body]

\* What cherry-pick does with the merge m of the commit into the branch.
CherryPickMerged(R, hash, m) ==
    IF ~m.ok
    THEN [R |-> [R EXCEPT !.markers = @ \cup {"CHERRY_PICK_HEAD"}, !.wt = "unmerged"],
          ok |-> FALSE]
    ELSE IF m.tree = TreeOf(R.refs[R.HEAD])
    THEN [R |-> [R EXCEPT !.markers = @ \cup {"CHERRY_PICK_HEAD"}], ok |-> FALSE]
    ELSE [R |-> [R EXCEPT !.refs[R.HEAD] =
                     Append(@, Commit(m.tree, Last(hash).subj, Last(hash).body))],
          ok |-> TRUE]

\* git cherry-pick <hash> onto the current branch.  A conflict, or a pick
\* that changes nothing, stops with CHERRY_PICK_HEAD left behind.
GitCherryPick(R, hash) ==
    CherryPickMerged(R, hash, Merge3(ParentTree(hash), TreeOf(R.refs[R.HEAD]), TreeOf(hash)))

\* git branch -D <name>: refuses the branch that is checked out.
deleteBranch(R, branchName) ==
    IF ~BranchExists(R, branchName) THEN [R |-> R, err |-> "branch not found"]
    ELSE IF R.HEAD = branchName THEN [R |-> R, err |-> "cannot delete checked out branch"]
    ELSE [R |-> [R EXCEPT !.refs[branchName] = <<>>], err |-> ""]

\* git checkout <name>
GitCheckout(R, name) ==
    IF BranchExists(R, name) THEN [R |-> [R EXCEPT !.HEAD = name], ok |-> TRUE]
    ELSE [R |-> R, ok |-> FALSE]

RECURSIVE cherryPickLoop(_, _, _)

\* A recovery text that counts the failed commit among the applied ones.
cherryPickedOffByOne(newCommits, i, cp) ==
    IF ~cp.ok THEN [R |-> cp.R, failedAt |-> i, undo |-> i]
    ELSE cherryPickLoop(cp.R, newCommits, i + 1)

\* One iteration of the loop, once cherry-pick has answered cp; undo is the
\* number the recovery text names.
cherryPicked(newCommits, i, cp) ==
    IF ~cp.ok THEN [R |-> cp.R, failedAt |-> i, undo |-> i - 1]
    ELSE cherryPickLoop(cp.R, newCommits, i + 1)

\* The loop of landBranch over newCommits, from index i.
cherryPickLoop(R, newCommits, i) ==
    IF i > Len(newCommits) THEN [R |-> R, failedAt |-> 0, undo |-> 0]
    ELSE cherryPicked(newCommits, i, GitCherryPick(R, newCommits[i].Hash))

\* ------------------------------------------------------------ the squash
shortHash(hash) == [abbrev |-> hash]

RECURSIVE AllChangeIDs(_)
AllChangeIDs(commits) ==
    IF commits = <<>> THEN <<>>
    ELSE Head(commits).ChangeIDs \o AllChangeIDs(Tail(commits))

\* The Change-Id trailers, in the order the map of unique ids is iterated.
Trailers(changeIDSet, mapOrder) ==
    LET trailer(t) == t \in changeIDSet
    IN  [i \in 1..Len(SelectSeq(mapOrder, trailer)) |->
            ChangeIdLine(SelectSeq(mapOrder, trailer)[i])]

\* A combined message with one trailer for every Change-Id line of every
\* commit, repeated or not.
createCombinedWithEveryTrailer(commits, mapOrder) ==
    (IF Len(commits) > 0 THEN <<Line(commits[1].Subject, NoValue), Line("", NoValue)>> ELSE <<>>)
    \o <<Line("Squashed commits: ", Len(commits))>>
    \o [i \in 1..Len(commits) |->
           Line("item", <<i, commits[i].Subject, shortHash(commits[i].Hash)>>)]
    \o <<Line("", NoValue)>>
    \o [i \in 1..Len(AllChangeIDs(commits)) |-> ChangeIdLine(AllChangeIDs(commits)[i])]

\* A combined message that ends after the list of squashed commits.
createCombinedWithoutTrailers(commits, mapOrder) ==
    (IF Len(commits) > 0 THEN <<Line(commits[1].Subject, NoValue), Line("", NoValue)>> ELSE <<>>)
    \o <<Line("Squashed commits: ", Len(commits))>>
    \o [i \in 1..Len(commits) |->
           Line("item", <<i, commits[i].Subject, shortHash(commits[i].Hash)>>)]

\* The lines of the combined message; mapOrder is the order in which the
\* map of unique change-ids happens to be iterated.
createCombinedCommitMessage(commits, mapOrder) ==
    (IF Len(commits) > 0 THEN <<Line(commits[1].Subject, NoValue), Line("", NoValue)>> ELSE <<>>)
    \o <<Line("Squashed commits: ", Len(commits))>>
    \o [i \in 1..Len(commits) |->
           Line("item", <<i, commits[i].Subject, shortHash(commits[i].Hash)>>)]
    \o <<Line("", NoValue)>>
    \o Trailers(Range(AllChangeIDs(commits)), mapOrder)

\* A validation that only asks for a subject line.
validateLLMSubjectOnly(response, expectedChangeIDs) ==
    IF response = <<>> \/ response[1].key = "" THEN "missing subject line" ELSE ""

\* nil when the response has a subject line and every expected change-id.
validateLLMResponse(response, expectedChangeIDs) ==
    IF response = <<>> \/ response[1].key = "" THEN "missing subject line"
    ELSE IF Range(expectedChangeIDs) \subseteq Range(extractChangeIDs(response)) THEN ""
    ELSE "missing Change-IDs"

\* The message squashLastCommits commits, and where it came from.
SquashMessage(commits, useLLM, env) ==
    IF useLLM /\ ~env.llm.err /\ validateLLMResponse(env.llm.lines, AllChangeIDs(commits)) = ""
    THEN [from |-> "llm", lines |-> env.llm.lines]
    ELSE [from |-> "combined", lines |-> createCombinedCommitMessage(commits, env.mapOrder)]

\* git reset --soft <baseCommit>, then git commit -m <msg> of the index,
\* which still holds the tree of h.
squashCommit(R, h, baseCommit, msg) ==
    IF TreeOf(h) = TreeOf(baseCommit)
    THEN [R |-> [R EXCEPT !.refs[R.HEAD] = baseCommit],
          err |-> "nothing to commit", from |-> msg.from]
    ELSE [R |-> [R EXCEPT !.refs[R.HEAD] =
                    Append(baseCommit, Commit(TreeOf(h), msg.lines[1].key, Tail(msg.lines)))],
          err |-> "", from |-> msg.from]

squashLastCommits(R, n, commits, useLLM, env) ==
    IF n <= 1 THEN [R |-> R, err |-> "", from |-> "none"]
    ELSE IF Len(R.refs[R.HEAD]) <= n
    THEN [R |-> R, err |-> "failed to find base commit", from |-> "none"]
    ELSE squashCommit(R, R.refs[R.HEAD], SubSeq(R.refs[R.HEAD], 1, Len(R.refs[R.HEAD]) - n),
                      SquashMessage(commits, useLLM, env))

\* ---------------------------------------------------------------- land
NoPlan == [picks |-> <<>>, squash |-> FALSE, from |-> "none", delete |-> FALSE]

\* What a call of landBranch returns and did: the repository it leaves, the
\* error, what it printed under [DRY RUN] (plan) and what it carried out.
LandResult(R, branchName) ==
    [R |-> R, err |-> "", outcome |-> "refused", branch |-> branchName,
     commits |-> <<>>, analysed |-> FALSE, filtered |-> <<>>, valid |-> <<>>,
     conflict |-> NoConflict, conflictError |-> <<>>, plan |-> NoPlan, picked |-> <<>>,
     failedAt |-> 0, undo |-> 0, squashed |-> FALSE, from |-> "none", deleted |-> FALSE]

\* The end of landBranch: the source branch is deleted.
landDeleted(r, del) ==
    [r EXCEPT !.R = del.R, !.err = del.err, !.deleted = (del.err = "")]

\* landBranch after the squash.
landSquashed(r, branchName, sq) ==
    IF sq.err # ""
    THEN [r EXCEPT !.R = sq.R, !.err = "failed to squash commits", !.from = sq.from]
    ELSE landDeleted([r EXCEPT !.squashed = TRUE, !.from = sq.from],
                     deleteBranch(sq.R, branchName))

\* A land that deletes the source branch although a cherry-pick failed.
landPickedDeletesAfterFailure(r, branchName, opts, env, newCommits, picks) ==
    IF picks.failedAt # 0
    THEN [landDeleted([r EXCEPT !.picked = SubSeq(newCommits, 1, picks.failedAt - 1),
                                !.failedAt = picks.failedAt, !.undo = picks.undo],
                      deleteBranch(picks.R, branchName))
             EXCEPT !.err = "cherry-pick failed"]
    ELSE IF opts.Squash /\ Len(newCommits) > 1
    THEN landSquashed([r EXCEPT !.picked = newCommits], branchName,
                      squashLastCommits(picks.R, Len(newCommits), newCommits, opts.UseLLM, env))
    ELSE landDeleted([r EXCEPT !.picked = newCommits], deleteBranch(picks.R, branchName))

\* landBranch after the cherry-pick loop.
landPicked(r, branchName, opts, env, newCommits, picks) ==
    IF picks.failedAt # 0
    THEN [r EXCEPT !.R = picks.R, !.err = "cherry-pick failed",
                   !.picked = SubSeq(newCommits, 1, picks.failedAt - 1),
                   !.failedAt = picks.failedAt, !.undo = picks.undo]
    ELSE IF opts.Squash /\ Len(newCommits) > 1
    THEN landSquashed([r EXCEPT !.picked = newCommits], branchName,
                      squashLastCommits(picks.R, Len(newCommits), newCommits, opts.UseLLM, env))
    ELSE landDeleted([r EXCEPT !.picked = newCommits], deleteBranch(picks.R, branchName))

\* A land that does not stop at a recorded conflict.
landAnalysedIgnoringConflict(r, branchName, opts, env, analysis) ==
    IF Len(analysis.ValidCommits) = 0
    THEN IF opts.DryRun
         THEN [r EXCEPT !.outcome = "delete-only", !.plan = [NoPlan EXCEPT !.delete = TRUE]]
         ELSE landDeleted([r EXCEPT !.outcome = "delete-only"],
                          deleteBranch(analysis.R, branchName))
    ELSE IF opts.DryRun
    THEN [r EXCEPT !.outcome = "land",
                   !.plan = [picks |-> analysis.ValidCommits,
                             squash |-> opts.Squash /\ Len(analysis.ValidCommits) > 1,
                             from |-> IF ~(opts.Squash /\ Len(analysis.ValidCommits) > 1)
                                      THEN "none"
                                      ELSE IF opts.UseLLM THEN "llm" ELSE "combined",
                             delete |-> TRUE]]
    ELSE landPicked([r EXCEPT !.outcome = "land"], branchName, opts, env,
                    analysis.ValidCommits, cherryPickLoop(analysis.R, analysis.ValidCommits, 1))

\* A land whose preview leaves the squash out.
landAnalysedPlanWithoutSquash(r, branchName, opts, env, analysis) ==
    IF analysis.FirstConflict # NoConflict
    THEN [r EXCEPT !.err = "validation failed", !.outcome = "conflict"]
    ELSE IF Len(analysis.ValidCommits) = 0
    THEN IF opts.DryRun
         THEN [r EXCEPT !.outcome = "delete-only", !.plan = [NoPlan EXCEPT !.delete = TRUE]]
         ELSE landDeleted([r EXCEPT !.outcome = "delete-only"],
                          deleteBranch(analysis.R, branchName))
    ELSE IF opts.DryRun
    THEN [r EXCEPT !.outcome = "land",
                   !.plan = [picks |-> analysis.ValidCommits, squash |-> FALSE,
                             from |-> "none", delete |-> TRUE]]
    ELSE landPicked([r EXCEPT !.outcome = "land"], branchName, opts, env,
                    analysis.ValidCommits, cherryPickLoop(analysis.R, analysis.ValidCommits, 1))

\* A land that deletes the branch when the analysis records a conflict.
landAnalysedDropsOnConflict(r, branchName, opts, env, analysis) ==
    IF analysis.FirstConflict # NoConflict
    THEN landDeleted([r EXCEPT !.outcome = "conflict"], deleteBranch(analysis.R, branchName))
    ELSE IF Len(analysis.ValidCommits) = 0
    THEN IF opts.DryRun
         THEN [r EXCEPT !.outcome = "delete-only", !.plan = [NoPlan EXCEPT !.delete = TRUE]]
         ELSE landDeleted([r EXCEPT !.outcome = "delete-only"],
                          deleteBranch(analysis.R, branchName))
    ELSE IF opts.DryRun
    THEN [r EXCEPT !.outcome = "land",
                   !.plan = [picks |-> analysis.ValidCommits,
                             squash |-> opts.Squash /\ Len(analysis.ValidCommits) > 1,
                             from |-> IF ~(opts.Squash /\ Len(analysis.ValidCommits) > 1)
                                      THEN "none"
                                      ELSE IF opts.UseLLM THEN "llm" ELSE "combined",
                             delete |-> TRUE]]
    ELSE landPicked([r EXCEPT !.outcome = "land"], branchName, opts, env,
                    analysis.ValidCommits, cherryPickLoop(analysis.R, analysis.ValidCommits, 1))

\* landBranch once the analysis is there; r records what was analysed.
landAnalysed(r, branchName, opts, env, analysis) ==
    IF analysis.FirstConflict # NoConflict
    THEN [r EXCEPT !.err = "validation failed", !.outcome = "conflict"]
    ELSE IF Len(analysis.ValidCommits) = 0
    THEN IF opts.DryRun
         THEN [r EXCEPT !.outcome = "delete-only", !.plan = [NoPlan EXCEPT !.delete = TRUE]]
         ELSE landDeleted([r EXCEPT !.outcome = "delete-only"],
                          deleteBranch(analysis.R, branchName))
    ELSE IF opts.DryRun
    THEN [r EXCEPT !.outcome = "land",
                   !.plan = [picks |-> analysis.ValidCommits,
                             squash |-> opts.Squash /\ Len(analysis.ValidCommits) > 1,
                             from |-> IF ~(opts.Squash /\ Len(analysis.ValidCommits) > 1)
                                      THEN "none"
                                      ELSE IF opts.UseLLM THEN "llm" ELSE "combined",
                             delete |-> TRUE]]
    ELSE landPicked([r EXCEPT !.outcome = "land"], branchName, opts, env,
                    analysis.ValidCommits, cherryPickLoop(analysis.R, analysis.ValidCommits, 1))

\* A land that cherry-picks every commit of the branch, valid or not.
landCommitsPickingAll(R, branchName, opts, env, commits, analysis) ==
    IF analysis.err # ""
    THEN [LandResult(analysis.R, branchName) EXCEPT
              !.err = "failed to analyze commits", !.outcome = "error", !.commits = commits]
    ELSE IF analysis.FirstConflict # NoConflict \/ opts.DryRun \/ Len(analysis.ValidCommits) = 0
    THEN landAnalysed([LandResult(analysis.R, branchName) EXCEPT
                          !.commits = commits, !.analysed = TRUE,
                          !.filtered = analysis.filtered, !.valid = analysis.ValidCommits,
                          !.conflict = analysis.FirstConflict,
                          !.conflictError = analysis.ConflictError],
                      branchName, opts, env, analysis)
    ELSE landPicked([LandResult(analysis.R, branchName) EXCEPT
                        !.outcome = "land", !.commits = commits, !.analysed = TRUE,
                        !.filtered = analysis.filtered, !.valid = analysis.ValidCommits],
                    branchName, opts, env, commits, cherryPickLoop(analysis.R, commits, 1))

\* landBranch once the commits of the branch are read.
landCommits(R, branchName, opts, env, commits, analysis) ==
    IF analysis.err # ""
    THEN [LandResult(analysis.R, branchName) EXCEPT
              !.err = "failed to analyze commits", !.outcome = "error", !.commits = commits]
    ELSE landAnalysed([LandResult(analysis.R, branchName) EXCEPT
                          !.commits = commits, !.analysed = TRUE,
                          !.filtered = analysis.filtered, !.valid = analysis.ValidCommits,
                          !.conflict = analysis.FirstConflict,
                          !.conflictError = analysis.ConflictError],
                      branchName, opts, env, analysis)

\* A land that deletes a branch it found without commits.
landCheckedDeletesEmpty(R, branchName, opts, env, got) ==
    IF got.err # ""
    THEN [LandResult(R, branchName) EXCEPT !.err = "failed to get commits", !.outcome = "error"]
    ELSE IF Len(got.commits) = 0
    THEN landDeleted([LandResult(R, branchName) EXCEPT !.outcome = "noop"],
                     IF opts.DryRun THEN [R |-> R, err |-> ""] ELSE deleteBranch(R, branchName))
    ELSE IF findMainBranch(R).err # ""
    THEN [LandResult(R, branchName) EXCEPT !.err = findMainBranch(R).err, !.outcome = "error"]
    ELSE landCommits(R, branchName, opts, env, got.commits,
                     analyzeCommits(R, got.commits, findMainBranch(R).branch, branchName, env))

\* landBranch after its checks.
landChecked(R, branchName, opts, env, got) ==
    IF got.err # ""
    THEN [LandResult(R, branchName) EXCEPT !.err = "failed to get commits", !.outcome = "error"]
    ELSE IF Len(got.commits) = 0 THEN [LandResult(R, branchName) EXCEPT !.outcome = "noop"]
    ELSE IF findMainBranch(R).err # ""
    THEN [LandResult(R, branchName) EXCEPT !.err = findMainBranch(R).err, !.outcome = "error"]
    ELSE landCommits(R, branchName, opts, env, got.commits,
                     analyzeCommits(R, got.commits, findMainBranch(R).branch, branchName, env))

\* A land whose -force lifts the check of the repository state as well.
landNormalizedForceLiftsAll(R, branchName, opts, env) ==
    IF ~opts.Force /\ checkMainBranch(R) # ""
    THEN [LandResult(R, branchName) EXCEPT !.err = checkMainBranch(R)]
    ELSE IF ~opts.Force /\ checkRepoState(R) # ""
    THEN [LandResult(R, branchName) EXCEPT !.err = checkRepoState(R)]
    ELSE IF ~BranchExists(R, branchName)
    THEN [LandResult(R, branchName) EXCEPT !.err = "branch does not exist"]
    ELSE landChecked(R, branchName, opts, env, getCommitsInBranch(R, branchName))

\* landBranch with the normalised branch name.
landNormalized(R, branchName, opts, env) ==
    IF ~opts.Force /\ checkMainBranch(R) # ""
    THEN [LandResult(R, branchName) EXCEPT !.err = checkMainBranch(R)]
    ELSE IF checkRepoState(R) # ""
    THEN [LandResult(R, branchName) EXCEPT !.err = checkRepoState(R)]
    ELSE IF ~BranchExists(R, branchName)
    THEN [LandResult(R, branchName) EXCEPT !.err = "branch does not exist"]
    ELSE landChecked(R, branchName, opts, env, getCommitsInBranch(R, branchName))

landBranch(R, branchArg, opts, env) ==
    landNormalized(R, normalizeSketchBranch(branchArg), opts, env)

\* ---------------------------------------------------------------- drop
DropResult(R, branchName) ==
    [R |-> R, err |-> "", outcome |-> "refused", branch |-> branchName,
     plan |-> FALSE, deleted |-> FALSE]

\* A drop that does not ask whether the branch exists.
dropNormalizedUnchecked(R, branchName, dryRun) ==
    IF checkRepoState(R) # "" THEN [DropResult(R, branchName) EXCEPT !.err = checkRepoState(R)]
    ELSE IF dryRun THEN [DropResult(R, branchName) EXCEPT !.outcome = "drop", !.plan = TRUE]
    ELSE landDeleted([DropResult(R, branchName) EXCEPT !.outcome = "drop"],
                     deleteBranch(R, branchName))

\* A drop that, like the other commands, must be run on the main branch.
dropNormalizedOnMainOnly(R, branchName, dryRun) ==
    IF checkMainBranch(R) # "" THEN [DropResult(R, branchName) EXCEPT !.err = checkMainBranch(R)]
    ELSE IF checkRepoState(R) # ""
    THEN [DropResult(R, branchName) EXCEPT !.err = checkRepoState(R)]
    ELSE IF ~BranchExists(R, branchName)
    THEN [DropResult(R, branchName) EXCEPT !.err = "branch does not exist"]
    ELSE IF dryRun THEN [DropResult(R, branchName) EXCEPT !.outcome = "drop", !.plan = TRUE]
    ELSE landDeleted([DropResult(R, branchName) EXCEPT !.outcome = "drop"],
                     deleteBranch(R, branchName))

dropNormalized(R, branchName, dryRun) ==
    IF checkRepoState(R) # "" THEN [DropResult(R, branchName) EXCEPT !.err = checkRepoState(R)]
    ELSE IF ~BranchExists(R, branchName)
    THEN [DropResult(R, branchName) EXCEPT !.err = "branch does not exist"]
    ELSE IF dryRun THEN [DropResult(R, branchName) EXCEPT !.outcome = "drop", !.plan = TRUE]
    ELSE landDeleted([DropResult(R, branchName) EXCEPT !.outcome = "drop"],
                     deleteBranch(R, branchName))

dropBranch(R, branchArg, dryRun) ==
    dropNormalized(R, normalizeSketchBranch(branchArg), dryRun)

\* -------------------------------------------------------------- update
\* The diff a commit makes to its parent's tree.
Patch(hash) ==
    {<<x, ParentTree(hash)[x], TreeOf(hash)[x]>> :
        x \in {y \in Files : ParentTree(hash)[y] # TreeOf(hash)[y]}}

RECURSIVE RebaseLoop(_, _, _, _)

\* One commit of the replay, once its merge m onto `onto` is known.
RebaseMerged(todo, i, onto, upstream, m) ==
    IF ~m.ok THEN [ok |-> FALSE, hash |-> onto]
    ELSE IF m.tree = TreeOf(onto) THEN RebaseLoop(todo, i + 1, onto, upstream)
    ELSE RebaseLoop(todo, i + 1,
                    Append(onto, Commit(m.tree, Last(todo[i]).subj, Last(todo[i]).body)),
                    upstream)

\* Replays, from index i, the commits of `todo` on `onto`: a commit whose
\* patch is already upstream, or that becomes empty, is left out.
RebaseLoop(todo, i, onto, upstream) ==
    IF i > Len(todo) THEN [ok |-> TRUE, hash |-> onto]
    ELSE IF Patch(todo[i]) \in upstream THEN RebaseLoop(todo, i + 1, onto, upstream)
    ELSE RebaseMerged(todo, i, onto, upstream,
                      Merge3(ParentTree(todo[i]), TreeOf(onto), TreeOf(todo[i])))

\* The rebase of the current branch cur onto up, which share k commits.
RebaseOnto(R, up, cur, k) ==
    IF ~IsCommit(up) THEN [ok |-> FALSE, hash |-> cur]
    ELSE IF k = Len(up) THEN [ok |-> TRUE, hash |-> cur]
    ELSE RebaseLoop([i \in 1..(Len(cur) - k) |-> SubSeq(cur, 1, k + i)], 1, up,
                    {Patch(SubSeq(up, 1, j)) : j \in (k + 1)..Len(up)})

\* What git rebase leaves: the branch moved, or a rebase stopped half-way.
Rebased(R, up, res) ==
    IF res.ok THEN [R |-> [R EXCEPT !.refs[R.HEAD] = res.hash], ok |-> TRUE]
    ELSE IF ~IsCommit(up) THEN [R |-> R, ok |-> FALSE]
    ELSE [R |-> [R EXCEPT !.markers = @ \cup {"rebase-merge"}, !.wt = "unmerged"],
          ok |-> FALSE]

\* git rebase <upstreamName>, on the current branch.
GitRebase(R, upstreamName) ==
    Rebased(R, Resolve(R, upstreamName),
            RebaseOnto(R, Resolve(R, upstreamName), R.refs[R.HEAD],
                       CommonLen(Resolve(R, upstreamName), R.refs[R.HEAD])))

\* git rebase --abort
GitRebaseAbort(R) == [R EXCEPT !.markers = @ \ {"rebase-merge", "rebase-apply"}, !.wt = "clean"]

UpdateResult(R, branchName) ==
    [R |-> R, err |-> "", outcome |-> "refused", branch |-> branchName,
     commits |-> <<>>, filtered |-> <<>>, valid |-> <<>>, plan |-> FALSE,
     rebased |-> FALSE]

\* updateBranch after the checkout back to the main branch.
updateBack(r, back) ==
    IF ~back.ok THEN [r EXCEPT !.R = back.R, !.err = "failed to checkout"]
    ELSE [r EXCEPT !.R = back.R, !.rebased = TRUE]

\* An update that stays on the sketch branch after the rebase.
updateRebasedStaysOnBranch(r, mainBranch, rb) ==
    IF ~rb.ok
    THEN [r EXCEPT !.err = "rebase failed",
                   !.R = GitCheckout(GitRebaseAbort(rb.R), mainBranch).R]
    ELSE [r EXCEPT !.R = rb.R, !.rebased = TRUE]

\* An update that goes back to main without aborting a failed rebase.
updateRebasedWithoutAbort(r, mainBranch, rb) ==
    IF ~rb.ok
    THEN [r EXCEPT !.err = "rebase failed", !.R = GitCheckout(rb.R, mainBranch).R]
    ELSE updateBack(r, GitCheckout(rb.R, mainBranch))

\* updateBranch after the rebase.
updateRebased(r, mainBranch, rb) ==
    IF ~rb.ok
    THEN [r EXCEPT !.err = "rebase failed",
                   !.R = GitCheckout(GitRebaseAbort(rb.R), mainBranch).R]
    ELSE updateBack(r, GitCheckout(rb.R, mainBranch))

\* updateBranch after the checkout of the sketch branch.
updateCheckedOut(r, mainBranch, co) ==
    IF ~co.ok THEN [r EXCEPT !.R = co.R, !.err = "failed to checkout"]
    ELSE updateRebased(r, mainBranch, GitRebase(co.R, mainBranch))

\* An update that rebases whether or not it is a dry run.
updateValidatedIgnoringDryRun(r, branchName, mainBranch, dryRun, val) ==
    IF val.err # ""
    THEN [r EXCEPT !.err = "rebase validation failed", !.outcome = "conflict"]
    ELSE updateCheckedOut([r EXCEPT !.outcome = "update", !.plan = dryRun], mainBranch,
                          GitCheckout(val.R, branchName))

\* updateBranch once the rebase is validated.
updateValidated(r, branchName, mainBranch, dryRun, val) ==
    IF val.err # ""
    THEN [r EXCEPT !.err = "rebase validation failed", !.outcome = "conflict"]
    ELSE IF dryRun THEN [r EXCEPT !.outcome = "update", !.plan = TRUE]
    ELSE updateCheckedOut([r EXCEPT !.outcome = "update"], mainBranch,
                          GitCheckout(val.R, branchName))

\* The record of what the validation found.
updateRecord(R, branchName, commits, val) ==
    [UpdateResult(val.R, branchName) EXCEPT !.commits = commits,
                                             !.filtered = val.analysis.filtered,
                                             !.valid = val.analysis.ValidCommits]

\* updateBranch once the commits of the branch are read.
updateCommits(R, branchName, mainBranch, dryRun, commits, val) ==
    updateValidated(updateRecord(R, branchName, commits, val), branchName, mainBranch,
                    dryRun, val)

\* updateBranch after its checks.
updateChecked(R, branchName, dryRun, env, m, got) ==
    IF m.err # "" THEN [UpdateResult(R, branchName) EXCEPT !.err = m.err, !.outcome = "error"]
    ELSE IF got.err # ""
    THEN [UpdateResult(R, branchName) EXCEPT !.err = "failed to get commits",
                                              !.outcome = "error"]
    ELSE updateCommits(R, branchName, m.branch, dryRun, got.commits,
                       IF Len(got.commits) > 0 THEN validateGitOperation(R, got.commits, env)
                       ELSE [err |-> "", R |-> R, analysis |-> NoAnalysis(R)])

\* updateBranch with the normalised branch name.
updateNormalized(R, branchName, dryRun, env) ==
    IF checkMainBranch(R) # "" THEN [UpdateResult(R, branchName) EXCEPT !.err = checkMainBranch(R)]
    ELSE IF checkRepoState(R) # ""
    THEN [UpdateResult(R, branchName) EXCEPT !.err = checkRepoState(R)]
    ELSE IF ~BranchExists(R, branchName)
    THEN [UpdateResult(R, branchName) EXCEPT !.err = "branch does not exist"]
    ELSE updateChecked(R, branchName, dryRun, env, findMainBranch(R),
                       getCommitsInBranch(R, branchName))

updateBranch(R, branchArg, dryRun, env) ==
    updateNormalized(R, normalizeSketchBranch(branchArg), dryRun, env)

\* ---------------------------------------------------------------- list
\* How many of the commits carry a Change-Id that is among ids.
changeIdFiltered(commits, ids) ==
    Cardinality({i \in 1..Len(commits) :
        \E j \in 1..Len(commits[i].ChangeIDs) : commits[i].ChangeIDs[j] \in ids})

Status(R, analysis, status) == [R |-> R, status |-> status, analysis |-> analysis]

\* A status that calls every branch without valid commits landed.
statusEmptyAlwaysLanded(commits, analysis, ids) ==
    IF ids.err # "" THEN Status(analysis.R, analysis, "ERROR")
    ELSE Status(analysis.R, analysis, "LANDED")

\* The status of a branch none of whose commits is left to land.
statusEmpty(commits, analysis, ids) ==
    IF ids.err # "" THEN Status(analysis.R, analysis, "ERROR")
    ELSE IF changeIdFiltered(commits, ids.ids) = Len(commits)
    THEN Status(analysis.R, analysis, "LANDED")
    ELSE Status(analysis.R, analysis, "EMPTY")

\* A status that looks at the valid list before it looks at the conflict.
statusAnalysedEmptyFirst(commits, mainBranch, branchName, analysis) ==
    IF analysis.err # "" THEN Status(analysis.R, analysis, "ERROR")
    ELSE IF Len(analysis.ValidCommits) = 0
    THEN statusEmpty(commits, analysis, getChangeIDsInRef(analysis.R, mainBranch, branchName))
    ELSE IF analysis.FirstConflict # NoConflict THEN Status(analysis.R, analysis, "CONFLICT")
    ELSE Status(analysis.R, analysis, "CLEAN")

\* getRebaseLandStatus once the analysis is there.
statusAnalysed(commits, mainBranch, branchName, analysis) ==
    IF analysis.err # "" THEN Status(analysis.R, analysis, "ERROR")
    ELSE IF analysis.FirstConflict # NoConflict THEN Status(analysis.R, analysis, "CONFLICT")
    ELSE IF Len(analysis.ValidCommits) = 0
    THEN statusEmpty(commits, analysis, getChangeIDsInRef(analysis.R, mainBranch, branchName))
    ELSE Status(analysis.R, analysis, "CLEAN")

\* A status whose analysis scans the whole history of main for tokens.
statusCommitsUnscoped(R, branchName, env, got, m) ==
    IF got.err # "" THEN Status(R, NoAnalysis(R), "ERROR")
    ELSE IF Len(got.commits) = 0 THEN Status(R, NoAnalysis(R), "EMPTY")
    ELSE IF m.err # "" THEN Status(R, NoAnalysis(R), "ERROR")
    ELSE statusAnalysed(got.commits, m.branch, branchName,
                        analyzeCommits(R, got.commits, m.branch, <<>>, env))

\* getRebaseLandStatus once the commits of the branch are read.
statusCommits(R, branchName, env, got, m) ==
    IF got.err # "" THEN Status(R, NoAnalysis(R), "ERROR")
    ELSE IF Len(got.commits) = 0 THEN Status(R, NoAnalysis(R), "EMPTY")
    ELSE IF m.err # "" THEN Status(R, NoAnalysis(R), "ERROR")
    ELSE statusAnalysed(got.commits, m.branch, branchName,
                        analyzeCommits(R, got.commits, m.branch, branchName, env))

getRebaseLandStatus(R, branchName, env) ==
    statusCommits(R, branchName, env, getCommitsInBranch(R, branchName), findMainBranch(R))

\* git for-each-ref refs/heads/sketch/*
SketchBranchNames(R) == {n \in DOMAIN R.refs : BranchExists(R, n) /\ Len(n) = 2 /\ n[1] = "sketch"}

\* git rev-list --left-right --count main...branch; k is the number of
\* commits the two histories share.
BranchInfo(name, hash, mainHash, k) ==
    [Name |-> name, Commit |-> hash, Subject |-> Last(hash).subj,
     Ahead |-> Len(hash) - k, Behind |-> Len(mainHash) - k]

getBranchInfo(R, name, mainBranch) ==
    BranchInfo(name, Resolve(R, name), Resolve(R, mainBranch),
               CommonLen(Resolve(R, mainBranch), Resolve(R, name)))

RECURSIVE ListRows(_, _, _, _)

\* The row of branch n, with status st, before the rows `rest` of the
\* branches after it.
ListRow(info, st, rest) ==
    [R |-> rest.R,
     rows |-> rest.rows \cup {[info |-> info, status |-> st.status,
                               filtered |-> st.analysis.filtered,
                               valid |-> st.analysis.ValidCommits]}]

ListFrom(R, names, n, mainBranch, env, st) ==
    ListRow(getBranchInfo(R, n, mainBranch), st, ListRows(st.R, names \ {n}, mainBranch, env))

\* The rows listBranches prints, one after the other, threading the
\* repository through the status computation of each branch.
ListRows(R, names, mainBranch, env) ==
    IF names = {} THEN [R |-> R, rows |-> {}]
    ELSE ListFrom(R, names, CHOOSE x \in names : TRUE, mainBranch, env,
                  getRebaseLandStatus(R, CHOOSE x \in names : TRUE, env))

ListResult(R) == [R |-> R, err |-> "", outcome |-> "refused", rows |-> {}]

\* listBranches once the rows are computed.
listRowsOut(R, out) == [ListResult(R) EXCEPT !.outcome = "list", !.R = out.R, !.rows = out.rows]

listBranches(R, env) ==
    IF checkRepoState(R) # "" THEN [ListResult(R) EXCEPT !.err = checkRepoState(R)]
    ELSE IF findMainBranch(R).err # ""
    THEN [ListResult(R) EXCEPT !.err = findMainBranch(R).err, !.outcome = "error"]
    ELSE listRowsOut(R, ListRows(R, SketchBranchNames(R), findMainBranch(R).branch, env))

\* ------------------------------------------------------- the environment
\* What a hand-made commit changes: one file, and the subject that says so.
Changes == {[file |-> "f", val |-> 1, subj |-> "set f to 1"],
            [file |-> "f", val |-> 2, subj |-> "set f to 2"],
            [file |-> "g", val |-> 1, subj |-> "set g to 1"]}

\* On the main branch the commits made by hand are those of other people.
ChangesOn(n) == IF n = Main THEN {ch \in Changes : ch.file = "f" /\ ch.val = 1} ELSE Changes

Bodies == {<<>>, <<ChangeIdLine("I1")>>}

\* The names a user types for a branch.
BranchArgs == {<<"a">>, <<"sketch", "a">>}

\* -llm is read by the squash only.
LandOptions == {o \in [Squash : BOOLEAN, DryRun : BOOLEAN, Force : BOOLEAN, UseLLM : BOOLEAN] :
                   o.UseLLM => o.Squash}

NoOptions == [Squash |-> FALSE, DryRun |-> FALSE, Force |-> FALSE, UseLLM |-> FALSE]

\* What the drafting service answers.
LLMReplies == {[err |-> TRUE, lines |-> <<>>],
               [err |-> FALSE, lines |-> <<Line("Unified change", NoValue), ChangeIdLine("I1")>>],
               [err |-> FALSE, lines |-> <<Line("", NoValue), ChangeIdLine("I1")>>],
               [err |-> FALSE, lines |-> <<Line("Unified change", NoValue)>>],
               [err |-> FALSE, lines |-> <<Line("Unified change", NoValue),
                                           Line("See also: ", "I1")>>]}

Orders == {<<"I1", "I2">>}

DefaultEnv == [mergeTree |-> TRUE, commitTree |-> TRUE,
               llm |-> [err |-> TRUE, lines |-> <<>>], mapOrder |-> <<"I1", "I2">>]

\* What the installed git can do (merge-tree --write-tree needs Git 2.38),
\* and whether commit-tree succeeds.
GitEnvs == {[DefaultEnv EXCEPT !.mergeTree = mt, !.commitTree = ct] :
               <<mt, ct>> \in {<<TRUE, TRUE>>, <<FALSE, TRUE>>, <<TRUE, FALSE>>}}

\* The surroundings of a land: the drafting service is only asked with -llm.
LandEnvs(opts) ==
    {[e EXCEPT !.llm = l, !.mapOrder = o] :
        e \in GitEnvs,
        l \in IF opts.UseLLM THEN LLMReplies ELSE {DefaultEnv.llm},
        o \in Orders}

\* The surroundings as far as a call consulted them: merge-tree is probed
\* when the filtered list is not empty, commit-tree runs when the walk
\* accepts a commit; what was not consulted is set to its default.
Consulted(env, probed, accepted, askedLLM, builtMessage) ==
    [mergeTree |-> ~probed \/ env.mergeTree,
     commitTree |-> ~probed \/ ~env.mergeTree \/ ~accepted \/ env.commitTree,
     llm |-> IF askedLLM THEN env.llm ELSE DefaultEnv.llm,
     mapOrder |-> IF builtMessage THEN env.mapOrder ELSE DefaultEnv.mapOrder]

Clean(R) == R.markers = {} /\ R.wt = "clean"

Bounded(R) == \A n \in DOMAIN R.refs : Len(R.refs[n]) <= MaxHistory

RootCommit == Commit(EmptyTree, "root", <<>>)

\* A commit of a branch is named, in the record of a call, by its depth in
\* the branch's history: the commits of one branch have distinct depths.
Positions(commits) == [i \in 1..Len(commits) |-> Len(commits[i].Hash)]

NoReport ==
    [err |-> "", outcome |-> "none", branch |-> <<>>, commits |-> <<>>, filtered |-> <<>>,
     valid |-> <<>>, conflict |-> <<>>, conflictError |-> <<>>, plan |-> NoPlan,
     picked |-> <<>>, failedAt |-> 0, undo |-> 0, squashed |-> FALSE, from |-> "none",
     deleted |-> FALSE, rebased |-> FALSE, rows |-> {}]

LandReport(res) ==
    [NoReport EXCEPT !.err = res.err, !.outcome = res.outcome, !.branch = res.branch,
                     !.commits = Positions(res.commits), !.filtered = Positions(res.filtered),
                     !.valid = Positions(res.valid), !.conflict = Positions(res.conflict),
                     !.conflictError = [i \in 1..Len(res.conflictError) |->
                                          [pos |-> res.conflictError[i].pos,
                                           total |-> res.conflictError[i].total,
                                           hash |-> Len(res.conflictError[i].hash)]],
                     !.plan = [res.plan EXCEPT !.picks = Positions(res.plan.picks)],
                     !.picked = Positions(res.picked), !.failedAt = res.failedAt,
                     !.undo = res.undo, !.squashed = res.squashed, !.from = res.from,
                     !.deleted = res.deleted]

DropReport(res) ==
    [NoReport EXCEPT !.err = res.err, !.outcome = res.outcome, !.branch = res.branch,
                     !.plan = [NoPlan EXCEPT !.delete = res.plan], !.deleted = res.deleted]

UpdateReport(res) ==
    [NoReport EXCEPT !.err = res.err, !.outcome = res.outcome, !.branch = res.branch,
                     !.commits = Positions(res.commits), !.filtered = Positions(res.filtered),
                     !.valid = Positions(res.valid),
                     !.plan = [NoPlan EXCEPT !.picks = IF res.plan THEN Positions(res.commits)
                                                      ELSE <<>>],
                     !.rebased = res.rebased]

ListReport(res) ==
    [NoReport EXCEPT !.err = res.err, !.outcome = res.outcome,
                     !.rows = {[name |-> r.info.Name, Ahead |-> r.info.Ahead,
                                Behind |-> r.info.Behind, status |-> r.status] : r \in res.rows}]

Called(op, opts, env, report) ==
    [op |-> op, opts |-> opts, env |-> env, pre |-> repo, res |-> report]

\* No call of palimp since the user last touched the repository.
NoCall(R) ==
    [op |-> "none", opts |-> NoOptions, env |-> DefaultEnv, pre |-> R,
     res |-> NoReport]

\* palimp is not running: the shell is at its prompt.
AtPrompt == last.op = "none"

\* A fresh repository: one commit on main, which is checked out.
InitialRepo ==
    [refs |-> [n \in RefNames |-> IF n = Main THEN <<RootCommit>> ELSE <<>>],
     HEAD |-> Main, markers |-> {}, wt |-> "clean"]

Init ==
    /\ repo = InitialRepo
    /\ made = 0
    /\ last = NoCall(repo)

\* git branch sketch/<x>: a new sketch branch at the current commit.
UserBranch ==
    \E n \in RefNames :
        /\ AtPrompt
        /\ n[1] = "sketch" /\ ~BranchExists(repo, n) /\ Clean(repo)
        /\ repo' = [repo EXCEPT !.refs[n] = repo.refs[repo.HEAD]]
        /\ last' = NoCall(repo')
        /\ UNCHANGED made

\* A commit made by hand (or by the agent) on a branch.
UserCommit ==
    \E n \in RefNames, body \in Bodies :
      \E ch \in ChangesOn(n) :
        /\ AtPrompt
        /\ made < MaxCommits /\ BranchExists(repo, n) /\ Clean(repo)
        /\ TreeOf(repo.refs[n])[ch.file] # ch.val
        /\ repo' = [repo EXCEPT !.refs[n] =
                       Append(@, Commit([TreeOf(@) EXCEPT ![ch.file] = ch.val], ch.subj, body))]
        /\ made' = made + 1
        /\ last' = NoCall(repo')

UserCheckout ==
    \E n \in RefNames :
        /\ AtPrompt
        /\ BranchExists(repo, n) /\ n # repo.HEAD /\ Clean(repo)
        /\ repo' = [repo EXCEPT !.HEAD = n]
        /\ last' = NoCall(repo')
        /\ UNCHANGED made

\* The user edits a file, and perhaps stages it.
UserEdit ==
    \E kind \in {"staged", "unstaged"} :
        /\ AtPrompt
        /\ Clean(repo)
        /\ repo' = [repo EXCEPT !.wt = kind]
        /\ last' = NoCall(repo')
        /\ UNCHANGED made

\* git cherry-pick --abort, git reset --hard: back to a clean work tree.
UserAbort ==
    /\ AtPrompt
    /\ ~Clean(repo)
    /\ repo' = [repo EXCEPT !.markers = {}, !.wt = "clean"]
    /\ last' = NoCall(repo')
    /\ UNCHANGED made

\* A call of palimp returns: the repository is as the call left it, and
\* the call, with its report, is the last one made.
Returns(op, opts, env, R, report) ==
    /\ repo' = R
    /\ last' = Called(op, opts, env, report)
    /\ UNCHANGED made

LandReturns(opts, env, res) ==
    Returns("land", opts,
            Consulted(env, Len(res.filtered) > 0, Len(res.valid) > 0,
                      opts.UseLLM /\ res.from # "none",
                      "combined" \in {res.from, res.plan.from}),
            res.R, LandReport(res))

Land ==
    \E arg \in BranchArgs, opts \in LandOptions :
        \E env \in LandEnvs(opts) :
            /\ AtPrompt /\ Bounded(repo)
            /\ LandReturns(opts, env, landBranch(repo, arg, opts, env))

DropReturns(dryRun, res) ==
    Returns("drop", [NoOptions EXCEPT !.DryRun = dryRun], DefaultEnv, res.R, DropReport(res))

Drop ==
    \E arg \in BranchArgs, dryRun \in BOOLEAN :
        /\ AtPrompt
        /\ DropReturns(dryRun, dropBranch(repo, arg, dryRun))

UpdateReturns(dryRun, env, res) ==
    Returns("update", [NoOptions EXCEPT !.DryRun = dryRun],
            Consulted(env, Len(res.filtered) > 0, Len(res.valid) > 0, FALSE, FALSE),
            res.R, UpdateReport(res))

Update ==
    \E arg \in BranchArgs, dryRun \in BOOLEAN, env \in GitEnvs :
        /\ AtPrompt /\ Bounded(repo)
        /\ UpdateReturns(dryRun, env, updateBranch(repo, arg, dryRun, env))

ListReturns(env, res) ==
    Returns("list", NoOptions,
            Consulted(env, \E r \in res.rows : Len(r.filtered) > 0,
                      \E r \in res.rows : Len(r.valid) > 0, FALSE, FALSE),
            res.R, ListReport(res))

List ==
    \E env \in GitEnvs :
        /\ AtPrompt
        /\ ListReturns(env, listBranches(repo, env))

\* The command has printed its report and the process ends.
Exit ==
    /\ ~AtPrompt
    /\ last' = NoCall(repo)
    /\ UNCHANGED <<repo, made>>

Next ==
    \/ UserBranch
    \/ UserCommit
    \/ UserCheckout
    \/ UserEdit
    \/ UserAbort
    \/ Land
    \/ Drop
    \/ Update
    \/ List
    \/ Exit

Spec == Init /\ [][Next]_vars

\* ------------------------------------------- the Change-Id filter on its own
\* The longest list of commits handed to the filter.
MaxLen == 3

\* The Change-Id trailers of a commit message.
TokenBodies ==
    {<<>>, <<ChangeIdLine("I1")>>, <<ChangeIdLine("I2")>>,
     <<ChangeIdLine("I1"), ChangeIdLine("I2")>>, <<ChangeIdLine("I2"), ChangeIdLine("I1")>>}

\* The commits of a branch whose messages have the given bodies, as
\* getCommitsInBranch reads them.
CommitsWith(bodies) ==
    RevList(<<RootCommit>> \o [i \in 1..Len(bodies) |-> Commit(EmptyTree, "change", bodies[i])], 1)

FilterInputs ==
    {[op |-> "input", commits |-> CommitsWith(bodies), mainChangeIDs |-> ids, res |-> <<>>] :
        bodies \in UNION {[1..n -> TokenBodies] : n \in 0..MaxLen}, ids \in SUBSET Tokens}

FilterInit ==
    /\ repo = InitialRepo
    /\ made = 0
    /\ last \in FilterInputs

FilterNewCommits ==
    /\ last.op = "input"
    /\ last' = [last EXCEPT !.op = "filterNewCommits",
                            !.res = filterNewCommits(last.commits, last.mainChangeIDs)]
    /\ UNCHANGED <<repo, made>>

SpecFilter == FilterInit /\ [][FilterNewCommits]_vars

\* ------------------------------------------------------------- the claims
\* A sequence of depths that goes up.
Increasing(s) == \A i, j \in 1..Len(s) : i < j => s[i] < s[j]

\* The branch the last call was about, as the call found it.
SourceBefore == last.pre.refs[last.res.branch]

\* The commit of that branch at depth p.
CommitAt(p) == SubSeq(SourceBefore, 1, p)

MainBefore == last.pre.refs[Main]

\* The last call was a land that analysed the commits of the branch.
Analysed == last.op = "land" /\ last.res.outcome \in {"conflict", "delete-only", "land"}

\* The tree of the accumulated base once the first n valid commits are
\* applied: main's tree, then the merge of each valid commit into it (the
\* commit's own tree where the temporary commit could not be written).
RECURSIVE AccumulatedTree(_)
AccumulatedTree(n) ==
    IF n = 0 THEN TreeOf(MainBefore)
    ELSE IF last.env.commitTree
    THEN Merge3(ParentTree(CommitAt(last.res.valid[n])), AccumulatedTree(n - 1),
                TreeOf(CommitAt(last.res.valid[n]))).tree
    ELSE TreeOf(CommitAt(last.res.valid[n]))

\* The accumulated base the commit at depth p is merged into.
BaseTreeAt(p) == AccumulatedTree(Cardinality({i \in 1..Len(last.res.valid) : last.res.valid[i] < p}))

\* The three-way merge of the commit at depth p into the accumulated base.
MergeAt(p) == Merge3(ParentTree(CommitAt(p)), BaseTreeAt(p), TreeOf(CommitAt(p)))

\* C1: a land that finds a conflict returns an error naming the first
\* conflicting commit and leaves the repository as it was: nothing is
\* cherry-picked, squashed or deleted, with any options.
C1_ConflictAbortsLand ==
    (last.op = "land" /\ last.res.conflict # <<>>) =>
        /\ last.res.err = "validation failed"
        /\ Len(last.res.conflictError) = 1
        /\ last.res.conflictError[1].hash = last.res.conflict[1]
        /\ last.res.picked = <<>> /\ ~last.res.squashed /\ ~last.res.deleted
        /\ repo = last.pre

C1_Witness ==
    /\ last.op = "land" /\ last.res.conflict # <<>>
    /\ Len(last.res.valid) > 0
    /\ ~last.opts.DryRun /\ last.opts.Squash /\ last.opts.Force

\* C2: the filter keeps the commits in their order and drops a commit if
\* and only if one of its Change-Ids is among mainChangeIDs; a commit
\* without Change-Id is kept.
C2_FilterDropsLandedTokens ==
    last.op = "filterNewCommits" =>
        /\ Increasing(Positions(last.res))
        /\ Range(last.res) \subseteq Range(last.commits)
        /\ \A i \in 1..Len(last.commits) :
              /\ (last.commits[i] \in Range(last.res))
                    <=> (Range(last.commits[i].ChangeIDs) \cap last.mainChangeIDs = {})
              /\ (last.commits[i].ChangeIDs = <<>>) => (last.commits[i] \in Range(last.res))

C2_Witness ==
    /\ last.op = "filterNewCommits"
    /\ Len(last.res) = 1 /\ Len(last.commits) = 3
    /\ last.res[1].ChangeIDs = <<>>
    /\ \E i \in 1..3 : /\ Len(last.commits[i].ChangeIDs) = 2
                       /\ Cardinality(Range(last.commits[i].ChangeIDs) \cap last.mainChangeIDs) = 1

\* C3: the valid commits are commits of the input, in the input's order; a
\* recorded conflict is a commit of the input that is not valid, and every
\* valid commit comes before it.
C3_ValidPrecedeConflict ==
    /\ (Analysed \/ (last.op = "update" /\ last.res.commits # <<>>)) =>
          /\ Increasing(last.res.valid)
          /\ Range(last.res.valid) \subseteq Range(last.res.commits)
    /\ (Analysed /\ last.res.conflict # <<>>) =>
          /\ Len(last.res.conflict) = 1
          /\ last.res.conflict[1] \in Range(last.res.commits)
          /\ \A i \in 1..Len(last.res.valid) : last.res.valid[i] < last.res.conflict[1]

C3_Witness ==
    /\ Analysed /\ last.res.conflict # <<>>
    /\ Len(last.res.valid) = 1 /\ Len(last.res.commits) = 2
    /\ last.res.valid[1] < last.res.conflict[1]

\* C4 as written: when a conflict is recorded, every commit of the input
\* before the conflicting one is among the valid commits.
C4_AllBeforeConflictValid ==
    (Analysed /\ last.res.conflict # <<>>) =>
        \A i \in 1..Len(last.res.commits) :
            last.res.commits[i] < last.res.conflict[1]
                => last.res.commits[i] \in Range(last.res.valid)

\* C4: the recorded conflict is the first commit, of those the Change-Id
\* filter kept, whose merge into the accumulated base fails; every kept
\* commit before it merges, and is valid unless its merge leaves the
\* accumulated base as it is.
C4_FirstFailingMerge ==
    (Analysed /\ last.res.conflict # <<>>) =>
        /\ last.res.conflict[1] \in Range(last.res.filtered)
        /\ ~MergeAt(last.res.conflict[1]).ok
        /\ \A i \in 1..Len(last.res.filtered) :
              last.res.filtered[i] < last.res.conflict[1] =>
                  /\ MergeAt(last.res.filtered[i]).ok
                  /\ (last.res.filtered[i] \in Range(last.res.valid))
                        <=> (MergeAt(last.res.filtered[i]).tree # BaseTreeAt(last.res.filtered[i]))

C4_Witness ==
    /\ Analysed /\ last.res.conflict # <<>>
    /\ Len(last.res.commits) = 2 /\ last.res.valid = <<>>
    /\ last.res.conflict[1] = last.res.commits[2]

\* C5: the analysis and the listing built on it leave every ref, HEAD, the
\* index and the working tree as they were, whatever git can do, conflicts
\* included.
C5_ReadPathChangesNothing ==
    /\ last.op = "list" => repo = last.pre
    /\ \A env \in GitEnvs :
          /\ getRebaseLandStatus(repo, SketchA, env).R = repo
          /\ analyzeCommits(repo, getCommitsInBranch(repo, SketchA).commits, Main, SketchA,
                            env).R = repo

C5_Witness ==
    /\ last.op = "list"
    /\ \E r \in last.res.rows : r.status = "CONFLICT" /\ r.Ahead = 2

\* C6 as written: a real land on main without conflict and with valid
\* commits cherry-picks all of them, so that without squash main has
\* gained that many commits, and deletes the source branch.
C6_PicksAllAndDeletes ==
    (last.op = "land" /\ ~last.opts.DryRun /\ last.pre.HEAD = Main
        /\ last.res.outcome = "land") =>
        /\ last.res.picked = last.res.valid
        /\ ~last.opts.Squash => Len(repo.refs[Main]) = Len(MainBefore) + Len(last.res.valid)
        /\ last.res.deleted

\* The commits main has gained are the cherry-picks of `picked`, in order.
GainedPicks(picked) ==
    /\ Len(repo.refs[Main]) = Len(MainBefore) + Len(picked)
    /\ IsPrefix(MainBefore, repo.refs[Main])
    /\ \A j \in 1..Len(picked) :
          /\ repo.refs[Main][Len(MainBefore) + j].subj = Last(CommitAt(picked[j])).subj
          /\ repo.refs[Main][Len(MainBefore) + j].body = Last(CommitAt(picked[j])).body

\* C6: a real land on main without conflict and with valid commits
\* cherry-picks the valid commits in their order and nothing else, up to
\* the first pick that fails; no pick fails when the analysis could
\* simulate every merge.  Without squash main gains the picked commits;
\* the source branch is deleted after all picks (and the squash) went well,
\* and only then.
C6_PicksValidInOrder ==
    (last.op = "land" /\ ~last.opts.DryRun /\ last.pre.HEAD = Main
        /\ last.res.outcome = "land") =>
        /\ last.res.conflict = <<>> /\ last.res.valid # <<>>
        /\ IsPrefix(last.res.picked, last.res.valid)
        /\ (last.res.failedAt = 0) <=> (last.res.picked = last.res.valid)
        /\ (last.env.mergeTree /\ last.env.commitTree) => last.res.failedAt = 0
        /\ ~(last.opts.Squash /\ Len(last.res.valid) > 1) =>
              /\ GainedPicks(last.res.picked)
              /\ last.res.failedAt = 0 => last.res.deleted
        /\ last.res.deleted <=> (last.res.err = "")
        /\ last.res.deleted =>
              /\ last.res.picked = last.res.valid
              /\ ~BranchExists(repo, last.res.branch)
        /\ ~last.res.deleted => repo.refs[last.res.branch] = SourceBefore

C6_Witness ==
    /\ last.op = "land" /\ ~last.opts.DryRun /\ last.pre.HEAD = Main
    /\ ~last.opts.Squash
    /\ Len(last.res.picked) = 2 /\ last.res.picked = last.res.valid
    /\ Len(repo.refs[Main]) = Len(MainBefore) + 2
    /\ last.res.deleted

\* C7: when the k-th cherry-pick fails, the k-1 commits picked before it
\* stay on the current branch and nothing else is picked, nothing is
\* squashed, the source branch is kept, and the recovery text names k-1.
C7_FailedPickStops ==
    (last.op = "land" /\ last.res.failedAt # 0) =>
        /\ last.res.failedAt \in 1..Len(last.res.valid)
        /\ last.res.picked = SubSeq(last.res.valid, 1, last.res.failedAt - 1)
        /\ repo.HEAD = last.pre.HEAD
        /\ Len(repo.refs[repo.HEAD]) = Len(last.pre.refs[repo.HEAD]) + last.res.failedAt - 1
        /\ IsPrefix(last.pre.refs[repo.HEAD], repo.refs[repo.HEAD])
        /\ \A n \in RefNames \ {repo.HEAD} : repo.refs[n] = last.pre.refs[n]
        /\ ~last.res.squashed /\ last.res.from = "none"
        /\ ~last.res.deleted /\ BranchExists(repo, last.res.branch)
        /\ last.res.undo = last.res.failedAt - 1
        /\ last.res.err = "cherry-pick failed"

C7_Witness ==
    /\ last.op = "land" /\ last.res.failedAt = 2
    /\ last.opts.Squash
    /\ Len(repo.refs[Main]) = Len(MainBefore) + 1

\* A commit of the branch is incorporated in main by token or by content:
\* one of its Change-Ids is among those of main, or applying its change to
\* main's tree changes nothing.
TokenIn(p, ids) == Range(getCommitInfo(CommitAt(p)).ChangeIDs) \cap ids # {}

ContentInMain(p) ==
    /\ Merge3(ParentTree(CommitAt(p)), TreeOf(MainBefore), TreeOf(CommitAt(p))).ok
    /\ Merge3(ParentTree(CommitAt(p)), TreeOf(MainBefore), TreeOf(CommitAt(p))).tree
          = TreeOf(MainBefore)

\* Every Change-Id of main's history.
AllMainTokens == Range(extractChangeIDs(LogBodies(MainBefore, 0)))

\* The Change-Ids of the part of main's history that the analysis reads.
ScannedMainTokens == getChangeIDsInRef(last.pre, Main, last.res.branch).ids

\* A land that got as far as reading the commits of an existing branch.
LandOfCommits == Analysed /\ last.res.commits # <<>>

C9_DryRunChangesNothing ==
    (last.op \in {"land", "drop", "update"} /\ last.opts.DryRun) =>
        /\ repo = last.pre
        /\ ~last.res.deleted /\ ~last.res.rebased /\ ~last.res.squashed
        /\ last.res.picked = <<>>

C9_Witness ==
    /\ last.op = "land" /\ last.opts.DryRun /\ last.opts.UseLLM
    /\ last.res.plan.squash /\ last.res.plan.delete
    /\ Len(last.res.plan.picks) = 2

\* What a dry run of the last call, in the same repository under the same
\* options and surroundings, reports.
DryLand ==
    LandReport(landBranch(last.pre, last.res.branch, [last.opts EXCEPT !.DryRun = TRUE],
                          last.env))

DryUpdate == UpdateReport(updateBranch(last.pre, last.res.branch, TRUE, last.env))

DryDrop == DropReport(dropBranch(last.pre, last.res.branch, TRUE))

\* C10 as written: what a real land did is what the dry run reports: the
\* outcome class, the commits picked, the squash and the deletion.
C10_RealRunDoesThePlan ==
    (last.op = "land" /\ ~last.opts.DryRun) =>
        /\ DryLand.outcome = last.res.outcome
        /\ DryLand.plan.picks = last.res.picked
        /\ DryLand.plan.squash = last.res.squashed
        /\ DryLand.plan.delete = last.res.deleted

\* C10: a dry run reports the outcome class of the real run and the steps
\* the real run attempts: the real run picks the commits of the plan in its
\* order, squashes and deletes only if the plan says so, and has done the
\* whole plan whenever it returns no error; a real run that returns an
\* error has stopped part of the way.  A call that is refused, finds
\* nothing to do or finds a conflict reports the same in both modes.
C10_DryRunPlansTheRealRun ==
    /\ (last.op = "land" /\ ~last.opts.DryRun) =>
          /\ DryLand.outcome = last.res.outcome
          /\ DryLand.valid = last.res.valid /\ DryLand.conflict = last.res.conflict
          /\ IsPrefix(last.res.picked, DryLand.plan.picks)
          /\ last.res.squashed => DryLand.plan.squash
          /\ last.res.deleted => DryLand.plan.delete
          /\ last.res.err = "" =>
                /\ last.res.picked = DryLand.plan.picks
                /\ last.res.squashed = DryLand.plan.squash
                /\ last.res.deleted = DryLand.plan.delete
          /\ last.res.outcome \notin {"land", "delete-only"} =>
                DryLand.err = last.res.err /\ repo = last.pre
    /\ (last.op = "update" /\ ~last.opts.DryRun) =>
          /\ DryUpdate.outcome = last.res.outcome
          /\ DryUpdate.valid = last.res.valid
          /\ last.res.rebased => DryUpdate.plan.picks = last.res.commits
          /\ (last.res.outcome = "update" /\ last.res.err = "") => last.res.rebased
          /\ last.res.outcome # "update" => DryUpdate.err = last.res.err /\ repo = last.pre
    /\ (last.op = "drop" /\ ~last.opts.DryRun) =>
          /\ DryDrop.outcome = last.res.outcome
          /\ last.res.deleted => DryDrop.plan.delete
          /\ (last.res.outcome = "drop" /\ last.res.err = "") => last.res.deleted
          /\ last.res.outcome # "drop" => DryDrop.err = last.res.err /\ repo = last.pre

C10_Witness ==
    /\ last.op = "land" /\ ~last.opts.DryRun /\ last.res.err = ""
    /\ last.res.squashed /\ last.res.deleted
    /\ Len(last.res.picked) = 2
    /\ DryLand.plan.squash

\* The branch that was checked out when the last call began, and its tip.
Current == last.pre.HEAD

CurrentBefore == last.pre.refs[last.pre.HEAD]

\* The last call was a real land, with -squash and without -llm, that found
\* no conflict and a list of valid commits.
SquashLand ==
    /\ last.op = "land" /\ ~last.opts.DryRun /\ last.opts.Squash /\ ~last.opts.UseLLM
    /\ last.res.outcome = "land"

\* The Change-Ids of the valid commits of the last call.
ValidTokens ==
    UNION {Range(getCommitInfo(CommitAt(last.res.valid[i])).ChangeIDs) :
              i \in 1..Len(last.res.valid)}

\* How many lines of the message are Change-Id lines of token t.
TrailersOf(lines, t) ==
    Cardinality({k \in 1..Len(lines) : Lower(lines[k].key) = "change-id: " /\ lines[k].val = t})

\* The message (subject line, then body) is the combined message of the
\* valid commits: the subject of the first, the list that numbers every
\* subject with its abbreviated hash, each Change-Id once.
IsCombinedMessage(lines) ==
    /\ lines[1].key = Last(CommitAt(last.res.valid[1])).subj
    /\ \E k \in 1..Len(lines) :
          /\ lines[k] = Line("Squashed commits: ", Len(last.res.valid))
          /\ k + Len(last.res.valid) <= Len(lines)
          /\ \A i \in 1..Len(last.res.valid) :
                lines[k + i] = Line("item", <<i, Last(CommitAt(last.res.valid[i])).subj,
                                              shortHash(CommitAt(last.res.valid[i]))>>)
    /\ \A t \in Tokens : TrailersOf(lines, t) = IF t \in ValidTokens THEN 1 ELSE 0

ListedCommits == getCommitsInBranch(last.pre, SketchA).commits

ListedMainTokens == getChangeIDsInRef(last.pre, Main, SketchA).ids

ListedAnalysis == analyzeCommits(last.pre, ListedCommits, Main, SketchA, last.env)

\* The commits of the branch that carry a Change-Id of main.
TokenFiltered ==
    {i \in 1..Len(ListedCommits) : Range(ListedCommits[i].ChangeIDs) \cap ListedMainTokens # {}}

\* The last call listed the sketch branch, which has commits main has not.
ListedWithCommits ==
    /\ last.op = "list" /\ last.res.outcome = "list"
    /\ BranchExists(last.pre, SketchA) /\ Len(ListedCommits) > 0

\* The status the list printed for the sketch branch.
ListedStatus == (CHOOSE r \in last.res.rows : r.name = SketchA).status

\* C12: a branch with commits, each of which carries a Change-Id of main's
\* token set, is listed as LANDED; a branch with commits whose analysis
\* records no conflict and no valid commit, and not all of whose commits
\* carry a Change-Id of main, is listed as EMPTY.
C12_LandedOrEmpty ==
    ListedWithCommits =>
        /\ \E r \in last.res.rows : r.name = SketchA
        /\ Cardinality(TokenFiltered) = Len(ListedCommits) => ListedStatus = "LANDED"
        /\ (/\ ListedAnalysis.err = "" /\ ListedAnalysis.FirstConflict = NoConflict
            /\ ListedAnalysis.ValidCommits = <<>>
            /\ Cardinality(TokenFiltered) < Len(ListedCommits)) => ListedStatus = "EMPTY"

C12_Witness ==
    /\ ListedWithCommits /\ ListedStatus = "EMPTY"
    /\ Len(ListedCommits) = 2 /\ Cardinality(TokenFiltered) = 1

\* A branch of two commits that both carry a Change-Id of main is listed.
C12_WitnessLanded ==
    /\ ListedWithCommits /\ ListedStatus = "LANDED"
    /\ Len(ListedCommits) = 2 /\ Cardinality(TokenFiltered) = 2

\* The repository without any of the main branches.
WithoutMain(R) == [R EXCEPT !.refs[Main] = <<>>]

\* The status of the sketch branch in R follows the order of the
\* decisions: retrieval, no commits, analysis, conflict, nothing valid.
StatusDecided(R, env, st, got, an) ==
    /\ st \in {"ERROR", "EMPTY", "CONFLICT", "LANDED", "CLEAN"}
    /\ (got.err # "" \/ findMainBranch(R).err # "") => st = "ERROR"
    /\ (got.err = "" /\ got.commits = <<>>) => st = "EMPTY"
    /\ (got.err = "" /\ got.commits # <<>>) =>
          /\ an.err # "" => st = "ERROR"
          /\ (an.err = "" /\ an.FirstConflict # NoConflict) => st = "CONFLICT"
          /\ (an.err = "" /\ an.FirstConflict = NoConflict /\ an.ValidCommits = <<>>)
                => st \in {"LANDED", "EMPTY"}
    /\ (st = "CLEAN") <=> /\ got.err = "" /\ got.commits # <<>>
                          /\ an.err = "" /\ an.FirstConflict = NoConflict
                          /\ an.ValidCommits # <<>>

\* C13: the status is one of ERROR, EMPTY, CONFLICT, LANDED and CLEAN:
\* ERROR when the commits, the main branch or the analysis cannot be had,
\* EMPTY without commits, CONFLICT when the analysis records one, LANDED or
\* EMPTY when nothing is valid, CLEAN exactly when the analysis succeeds
\* with a valid commit and no conflict; list prints that status.
C13_StatusDecision ==
    /\ AtPrompt => \A env \in GitEnvs : \A R \in {repo, WithoutMain(repo)} :
          StatusDecided(R, env, getRebaseLandStatus(R, SketchA, env).status,
                        getCommitsInBranch(R, SketchA),
                        analyzeCommits(R, getCommitsInBranch(R, SketchA).commits, Main,
                                       SketchA, env))
    /\ (last.op = "list" /\ last.res.outcome = "list") =>
          /\ \A r \in last.res.rows : r.name = SketchA
          /\ (last.res.rows # {}) <=> BranchExists(last.pre, SketchA)
          /\ \A r \in last.res.rows :
                r.status = getRebaseLandStatus(last.pre, SketchA, last.env).status

\* A conflict is listed although every commit before it is landed.
C13_Witness ==
    /\ ListedWithCommits /\ ListedStatus = "CONFLICT"
    /\ Len(ListedCommits) = 2 /\ TokenFiltered = {1}
    /\ ListedAnalysis.ValidCommits = <<>>
    /\ getRebaseLandStatus(WithoutMain(repo), SketchA, last.env).status = "ERROR"

\* The last call was a real update that returned no error.
UpdateDone == last.op = "update" /\ ~last.opts.DryRun /\ last.res.err = ""

\* C14: after a real update that returns no error the branch exists, its
\* history contains main's tip (it is zero commits behind main), main is
\* the commit it was, main is checked out and nothing is in progress.
C14_UpdateRebasesInPlace ==
    UpdateDone =>
        /\ last.res.outcome = "update" /\ last.res.rebased
        /\ BranchExists(repo, last.res.branch)
        /\ IsPrefix(repo.refs[Main], repo.refs[last.res.branch])
        /\ getBranchInfo(repo, last.res.branch, Main).Behind = 0
        /\ repo.refs[Main] = MainBefore
        /\ repo.HEAD = Main /\ last.pre.HEAD = Main
        /\ Clean(repo)

C14_Witness ==
    /\ UpdateDone
    /\ Len(last.res.commits) = 2
    /\ getBranchInfo(last.pre, last.res.branch, Main).Behind = 1
    /\ Len(repo.refs[last.res.branch]) > Len(MainBefore)
    /\ repo.refs[last.res.branch] # SourceBefore

\* The rebase of the last call, an update, failed.
RebaseFailed == last.op = "update" /\ last.res.err = "rebase failed"

\* C15: when the rebase of an update fails, update returns the error with
\* no rebase in progress, main checked out, and main and the branch where
\* they were: the repository is the one the call found.  No update returns
\* with a rebase in progress or with another branch checked out than the
\* one it found checked out.
C15_FailedRebaseIsUndone ==
    /\ RebaseFailed =>
          /\ ~last.opts.DryRun /\ ~last.res.rebased
          /\ repo.markers \cap {"rebase-merge", "rebase-apply"} = {}
          /\ Clean(repo)
          /\ repo.HEAD = Main
          /\ repo.refs[Main] = MainBefore
          /\ repo.refs[last.res.branch] = SourceBefore
          /\ repo = last.pre
    /\ last.op = "update" =>
          /\ repo.markers \cap {"rebase-merge", "rebase-apply"} = {}
          /\ repo.HEAD = last.pre.HEAD
          /\ checkMainBranch(last.pre) = "" => repo.HEAD = Main

C15_Witness ==
    /\ RebaseFailed
    /\ last.env.mergeTree /\ last.env.commitTree
    /\ Len(last.res.commits) = 2
    /\ repo.HEAD = Main /\ Clean(repo)

\* The last call returned an error and left the repository as it found it.
Refused == last.res.err # "" /\ last.res.outcome = "refused" /\ repo = last.pre

\* The repository with an operation in progress, or with changes.
Disturbed(R) ==
    {[R EXCEPT !.markers = {ongoingOps[i]}] : i \in 1..Len(ongoingOps)}
        \cup {[R EXCEPT !.wt = w] : w \in {"staged", "unstaged"}}

\* The result res of a command run in D is an error, and D is unchanged.
RefusedIn(D, res) == res.err # "" /\ res.outcome = "refused" /\ res.R = D

\* Every command refuses the repository D and leaves it as it is.
AllRefuse(D) ==
    /\ \A force \in BOOLEAN :
          RefusedIn(D, landBranch(D, SketchA, [NoOptions EXCEPT !.Force = force], DefaultEnv))
    /\ RefusedIn(D, updateBranch(D, SketchA, FALSE, DefaultEnv))
    /\ RefusedIn(D, dropBranch(D, SketchA, FALSE))
    /\ RefusedIn(D, listBranches(D, DefaultEnv))

BranchMissing ==
    /\ last.op \in {"land", "drop", "update"}
    /\ ~BranchExists(last.pre, last.res.branch)

\* The checks that come before the look-up of the branch passed.
ChecksPassed ==
    /\ checkRepoState(last.pre) = ""
    /\ (last.op = "update" \/ (last.op = "land" /\ ~last.opts.Force))
          => checkMainBranch(last.pre) = ""

\* A repository whose only branch is the sketch branch.
OnlySketch(R) ==
    IF BranchExists(R, SketchA) THEN {[WithoutMain(R) EXCEPT !.HEAD = SketchA]} ELSE {}

\* The result res of a command run in D is an error, and D is unchanged.
FailsIn(D, res) == res.err # "" /\ res.R = D

\* C17: land, drop and update of a branch that does not exist return an
\* error and change nothing, and so do land, update and list where no main
\* branch exists: no ref is created, moved or deleted, HEAD stays.
C17_NotFoundChangesNothing ==
    /\ BranchMissing =>
          /\ last.res.err # "" /\ repo = last.pre
          /\ ~last.res.deleted /\ ~last.res.rebased /\ last.res.picked = <<>>
          /\ ChecksPassed =>
                last.res.err = "branch does not exist" /\ last.res.outcome = "refused"
    /\ AtPrompt =>
          /\ \A opts \in LandOptions, arg \in {<<"b">>, <<"sketch", "b">>} :
                /\ FailsIn(repo, landBranch(repo, arg, opts, DefaultEnv))
                /\ FailsIn(repo, dropBranch(repo, arg, opts.DryRun))
                /\ FailsIn(repo, updateBranch(repo, arg, opts.DryRun, DefaultEnv))
          /\ \A D \in OnlySketch(repo) :
                /\ findMainBranch(D).err # ""
                /\ \A opts \in LandOptions :
                      /\ FailsIn(D, landBranch(D, SketchA, opts, DefaultEnv))
                      /\ FailsIn(D, updateBranch(D, SketchA, opts.DryRun, DefaultEnv))
                /\ FailsIn(D, listBranches(D, DefaultEnv))

C17_Witness ==
    /\ BranchMissing /\ ChecksPassed
    /\ last.op = "land" /\ last.opts.Force /\ ~last.opts.DryRun
    /\ last.res.err = "branch does not exist"
    /\ Len(MainBefore) = 3

\* The last call changed the repository.
Mutated == last.op # "none" /\ repo # last.pre

\* The last call analysed the commits of the branch and found no conflict.
Certified ==
    /\ last.res.commits # <<>>
    /\ analyzeCommits(last.pre, getCommitsInBranch(last.pre, last.res.branch).commits, Main,
                      IF last.op = "land" THEN last.res.branch ELSE <<>>, last.env).err = ""
    /\ analyzeCommits(last.pre, getCommitsInBranch(last.pre, last.res.branch).commits, Main,
                      IF last.op = "land" THEN last.res.branch ELSE <<>>,
                      last.env).FirstConflict = NoConflict
    /\ last.res.conflict = <<>>

\* C18 as written: a call that changes the repository is a land or an
\* update, changes refs and HEAD only, and has analysed the commits of the
\* branch without finding a conflict.
C18_OnlyCertifiedPlansMutate ==
    Mutated =>
        /\ last.op \in {"land", "update"}
        /\ Certified
        /\ repo.markers = last.pre.markers /\ repo.wt = last.pre.wt

\* C18: a call that changes the repository is a real land, update or
\* drop.  A land changes it only after an analysis of the commits of the
\* branch that recorded no conflict; an update of a branch with commits
\* only after such an analysis, and an update of a branch without commits
\* of its own moves the branch onto main without any analysis; a drop
\* deletes the branch without any analysis.  Refs and HEAD apart, only a
\* land whose cherry-pick fails changes anything: it leaves the
\* cherry-pick in progress.
C18_MutationsAndTheirAnalysis ==
    /\ Mutated =>
          /\ last.op \in {"land", "update", "drop"} /\ ~last.opts.DryRun
          /\ last.op = "land" =>
                /\ last.res.outcome \in {"delete-only", "land"}
                /\ Certified
          /\ last.op = "update" =>
                /\ last.res.outcome = "update"
                /\ last.res.commits # <<>> => Certified
                /\ last.res.commits = <<>> =>
                      repo = [last.pre EXCEPT !.refs[last.res.branch] = MainBefore]
          /\ last.op = "drop" =>
                /\ last.res.outcome = "drop" /\ last.res.deleted
                /\ repo = [last.pre EXCEPT !.refs[last.res.branch] = <<>>]
          /\ (repo.markers # last.pre.markers \/ repo.wt # last.pre.wt) =>
                /\ last.op = "land" /\ last.res.failedAt # 0
                /\ repo.markers = last.pre.markers \cup {"CHERRY_PICK_HEAD"}
    /\ last.op = "list" => repo = last.pre

C18_Witness ==
    /\ Mutated /\ last.op = "update"
    /\ last.res.commits = <<>>
    /\ repo.refs[last.res.branch] = MainBefore
    /\ Len(MainBefore) = 2

\* The last call probed merge-tree and found it missing.
Degraded == last.op \in {"land", "update", "list"} /\ ~last.env.mergeTree

\* A git without merge-tree --write-tree.
DegradedEnv == [DefaultEnv EXCEPT !.mergeTree = FALSE]

\* The analysis of the sketch branch in R without merge-tree: no error, no
\* conflict, and all the commits the Change-Id filter keeps are valid.
DegradedAnalysis(R, commits, an) ==
    /\ an.err = "" /\ an.R = R
    /\ an.FirstConflict = NoConflict
    /\ an.ValidCommits = filterNewCommits(commits, getChangeIDsInRef(R, Main, SketchA).ids)

\* C19: when the merge-tree probe fails the analysis returns no error, no
\* conflict and the whole token-filtered list as valid, in order, whatever
\* the commits would do to main; land, update and list go on as after any
\* analysis without conflict: land plans or picks the list, update rebases,
\* list shows CLEAN.
C19_DegradedAnalysisSucceeds ==
    /\ (AtPrompt /\ BranchExists(repo, SketchA)) =>
          DegradedAnalysis(repo, getCommitsInBranch(repo, SketchA).commits,
                           analyzeCommits(repo, getCommitsInBranch(repo, SketchA).commits,
                                          Main, SketchA, DegradedEnv))
    /\ (Degraded /\ last.op = "land") =>
          /\ last.res.filtered # <<>> /\ last.res.valid = last.res.filtered
          /\ last.res.conflict = <<>> /\ last.res.outcome = "land"
          /\ last.res.err \notin {"failed to analyze commits", "validation failed"}
          /\ last.opts.DryRun => last.res.plan.picks = last.res.filtered
          /\ ~last.opts.DryRun =>
                /\ IsPrefix(last.res.picked, last.res.filtered)
                /\ last.res.failedAt = 0 => last.res.picked = last.res.filtered
    /\ (Degraded /\ last.op = "update") =>
          /\ last.res.filtered # <<>> /\ last.res.valid = last.res.filtered
          /\ last.res.outcome = "update"
          /\ last.res.err \in {"", "rebase failed"}
    /\ (Degraded /\ last.op = "list") =>
          /\ ListedWithCommits /\ ListedStatus = "CLEAN"

\* Without merge-tree a commit that conflicts with main counts as valid.
C19_Witness ==
    /\ Degraded /\ last.op = "land" /\ ~last.opts.DryRun
    /\ Len(last.res.valid) = 2 /\ last.res.valid = last.res.commits
    /\ ~MergeAt(last.res.valid[2]).ok
    /\ last.res.failedAt = 2

\* The last call was a real drop of an existing branch in a clean
\* repository.
RealDrop ==
    /\ last.op = "drop" /\ ~last.opts.DryRun
    /\ checkRepoState(last.pre) = "" /\ BranchExists(last.pre, last.res.branch)

\* A third branch, and the repository R with that branch, at the commit of
\* the sketch branch, checked out.
SketchB == <<"sketch", "b">>

OnThirdBranch(R) == [R EXCEPT !.refs = (SketchB :> R.refs[SketchA]) @@ R.refs, !.HEAD = SketchB]

\* The drop res of sketch/a in D deleted that branch and nothing else.
DroppedIn(D, res) ==
    /\ res.err = "" /\ res.deleted
    /\ res.R = [D EXCEPT !.refs[SketchA] = <<>>]
    /\ res.R.HEAD = D.HEAD /\ res.R.refs[SketchB] = D.refs[SketchB]
    /\ res.R.refs[Main] = D.refs[Main]

C20_WitnessDeleted ==
    /\ RealDrop /\ last.pre.HEAD = Main /\ last.res.deleted
    /\ Len(SourceBefore) = 3 /\ ~BranchExists(repo, SketchA)

\* ------------------------------------- the detection of the main branch
\* Repositories with any of the candidate branches, and a sketch branch;
\* any branch that exists may be checked out.
DetectRepos ==
    {[refs |-> [n \in Range(mainBranches) \cup {SketchA} |->
                   IF n \in S \cup {SketchA} THEN <<RootCommit>> ELSE <<>>],
      HEAD |-> h, markers |-> {}, wt |-> "clean"] :
        <<S, h>> \in {<<S, h>> \in (SUBSET Range(mainBranches))
                                    \X (Range(mainBranches) \cup {SketchA}) :
                          h \in S \cup {SketchA}}}

DetectInit ==
    /\ repo \in DetectRepos
    /\ made = 0
    /\ last = [op |-> "input", res |-> [err |-> "", branch |-> <<>>]]

FindMainBranch ==
    /\ last.op = "input"
    /\ last' = [op |-> "findMainBranch", res |-> findMainBranch(repo)]
    /\ UNCHANGED <<repo, made>>

SpecDetect == DetectInit /\ [][FindMainBranch]_vars

\* The candidates, in their order, that exist in the repository.
Existing(names) == SelectSeq(names, LAMBDA n : BranchExists(repo, n))

\* C21: the detection returns the first of main, master, trunk, develop,
\* default, stable that exists, whichever branch is checked out, and an
\* error exactly when none exists.
C21_FirstExistingCandidate ==
    last.op = "findMainBranch" =>
        /\ (last.res.err # "") <=>
              Existing(<< <<"main">>, <<"master">>, <<"trunk">>, <<"develop">>,
                          <<"default">>, <<"stable">> >>) = <<>>
        /\ last.res.err = "" =>
              last.res.branch =
                  Head(Existing(<< <<"main">>, <<"master">>, <<"trunk">>, <<"develop">>,
                                   <<"default">>, <<"stable">> >>))
        /\ \A h \in DOMAIN repo.refs : findMainBranch([repo EXCEPT !.HEAD = h]) = last.res

C21_Witness ==
    /\ last.op = "findMainBranch"
    /\ last.res.err = "" /\ last.res.branch = <<"master">>
    /\ ~BranchExists(repo, <<"main">>)
    /\ BranchExists(repo, <<"develop">>) /\ repo.HEAD = <<"develop">>

\* ------------------------------------------------ the extraction of tokens
\* The longest text given to the extraction, in lines.
MaxLines == 3

\* Lines of a message: trailers in three spellings of the key, one with
\* white space around it, with no value, with a blank value, with no space
\* after the colon, another trailer, the key inside a line, and plain text.
ExtractLines ==
    {Line("Change-Id: ", "I1"), Line("change-id: ", "Iab"), Line("CHANGE-ID: ", "I2"),
     Line("  Change-Id: ", " I1 "), Line("Change-Id: ", NoValue), Line("Change-Id: ", "  "),
     Line("Change-Id:", "I2"), Line("Signed-off-by: ", "I1"),
     Line("Fixes Change-Id: ", "I1"), Line("commit message", NoValue)}

ExtractInit ==
    /\ repo = InitialRepo
    /\ made = 0
    /\ last \in [op : {"input"}, text : UNION {[1..n -> ExtractLines] : n \in 0..MaxLines}, res : {<<>>}]

ExtractChangeIDs ==
    /\ last.op = "input"
    /\ last' = [last EXCEPT !.op = "extractChangeIDs", !.res = extractChangeIDs(last.text)]
    /\ UNCHANGED <<repo, made>>

SpecExtract == ExtractInit /\ [][ExtractChangeIDs]_vars

\* The values, trimmed, of the lines of the text that start with one of
\* the keys and have a value that is not blank, in the order of the lines.
ValuesAfter(keys) ==
    LET m == SelectSeq(last.text, LAMBDA l : l.key \in keys /\ l.val \notin {"", "  "})
    IN  [i \in 1..Len(m) |-> IF m[i].val = " I1 " THEN "I1" ELSE m[i].val]

\* C23: the extraction returns, in line order, the trimmed value, in its
\* own case, of every line whose trimmed text starts, in any case, with
\* `Change-Id: ` (the colon followed by a space) and has a value that
\* is not blank; nothing for any other line.
C23_TokensOfTrailerLines ==
    last.op = "extractChangeIDs" =>
        last.res = ValuesAfter({"Change-Id: ", "change-id: ", "CHANGE-ID: ", "  Change-Id: "})

C23_Witness ==
    /\ last.op = "extractChangeIDs"
    /\ last.text = <<Line("Change-Id: ", NoValue), Line("  Change-Id: ", " I1 "),
                     Line("change-id: ", "Iab")>>
    /\ last.res = <<"I1", "Iab">>

\* C23 as stated: every line that starts with `Change-Id:` and has a
\* value after the colon gives a token, with or without a space between.
C23_KeyEndsAtColon ==
    last.op = "extractChangeIDs" =>
        last.res = ValuesAfter({"Change-Id: ", "change-id: ", "CHANGE-ID: ", "  Change-Id: ",
                                "Change-Id:"})

\* ------------------------------------------------- the tokens of a ref
\* The longest shared history, and the most commits main has of its own.
MaxWindow == 2

\* Histories whose commits have the given subject and any trailers.
Histories(subj, lens) ==
    UNION {[1..n -> {Commit(EmptyTree, subj, b) :
                        b \in {<<>>, <<ChangeIdLine("I1")>>, <<ChangeIdLine("I2")>>}}] :
              n \in lens}

\* Repositories where main and the sketch branch share a history and then
\* part, or share nothing; every commit, the root too, may carry a token.
TokenRepos ==
    {[refs |-> [n \in RefNames |-> IF n = Main THEN shared \o m ELSE s],
      HEAD |-> Main, markers |-> {}, wt |-> "clean"] :
        <<shared, m, s>> \in
            {<<shared, m, shared \o s>> :
                 <<shared, m, s>> \in Histories("shared", 1..MaxWindow)
                                      \X Histories("on main", 0..MaxWindow)
                                      \X Histories("on sketch", 0..1)}
            \cup {<<shared, m, <<Commit(EmptyTree, "another root", <<>>)>> >> :
                     <<shared, m>> \in Histories("shared", 1..MaxWindow)
                                       \X Histories("on main", 0..MaxWindow)}}

TokensInit ==
    /\ repo \in TokenRepos
    /\ made = 0
    /\ last \in [op : {"input"}, sourceBranch : {SketchA, <<>>},
                 res : {[err |-> "", ids |-> {}]}]

GetChangeIDsInRef ==
    /\ last.op = "input"
    /\ last' = [last EXCEPT !.op = "getChangeIDsInRef",
                            !.res = getChangeIDsInRef(repo, Main, last.sourceBranch)]
    /\ UNCHANGED <<repo, made>>

SpecTokens == TokensInit /\ [][GetChangeIDsInRef]_vars

\* The depth in main of the last commit main and the sketch branch share;
\* 0 when they share none.
Fork ==
    Max({k \in 0..Len(repo.refs[Main]) :
            /\ k <= Len(repo.refs[SketchA])
            /\ SubSeq(repo.refs[Main], 1, k) = SubSeq(repo.refs[SketchA], 1, k)})

\* The tokens in the trailers of main's commits from a depth on.
TokensFrom(depth) ==
    {l.val : l \in UNION {Range(repo.refs[Main][d].body) :
                             d \in {d \in 1..Len(repo.refs[Main]) : d >= depth}}}

\* C22: with a source branch the tokens are those of main's commits from
\* the merge-base on, the merge-base included and its parent not; when
\* the merge-base is a root commit, those of the commits after it, the
\* merge-base not included; without a source branch or without a
\* merge-base, those of the whole history.
C22_WindowOfTokens ==
    last.op = "getChangeIDsInRef" =>
        /\ last.res.err = ""
        /\ last.res.ids =
              IF last.sourceBranch = <<>> \/ Fork = 0 THEN TokensFrom(1)
              ELSE IF Fork >= 2 THEN TokensFrom(Fork)
              ELSE TokensFrom(2)

C22_Witness ==
    /\ last.op = "getChangeIDsInRef"
    /\ last.sourceBranch = SketchA
    /\ Fork = 2
    /\ repo.refs[Main][1].body = <<ChangeIdLine("I1")>>
    /\ repo.refs[Main][2].body = <<ChangeIdLine("I2")>>
    /\ last.res.ids = {"I2"}

C22_WitnessRoot ==
    /\ last.op = "getChangeIDsInRef"
    /\ last.sourceBranch = SketchA
    /\ Fork = 1
    /\ repo.refs[Main][1].body = <<ChangeIdLine("I1")>>
    /\ last.res.ids = {}

\* C22 as stated: the window includes the parent of the merge-base, and
\* a merge-base that is a root commit.
C22_WindowIncludesParent ==
    last.op = "getChangeIDsInRef" =>
        last.res.ids =
            IF last.sourceBranch = <<>> \/ Fork = 0 THEN TokensFrom(1)
            ELSE IF Fork >= 2 THEN TokensFrom(Fork - 1)
            ELSE TokensFrom(1)

\* The last call was a real land with -squash and -llm that picked more
\* than one commit and went on to write the message of the squash.
DraftedLand ==
    /\ last.op = "land" /\ ~last.opts.DryRun /\ last.opts.Squash /\ last.opts.UseLLM
    /\ last.res.outcome = "land" /\ last.res.from # "none"

\* The text has a first line that is not blank.
HasSubject(lines) == lines # <<>> /\ lines[1].key # ""

\* The token stands in the text.
Mentions(lines, t) == \E k \in 1..Len(lines) : lines[k].val = t

\* The same land without -llm.
PlainLand ==
    landBranch(last.pre, last.res.branch, [last.opts EXCEPT !.UseLLM = FALSE], last.env)

\* C24: in a land with squash and LLM the drafted message is the message
\* of the squash commit only if the service answered, the first line of
\* the draft is not blank and the draft contains every Change-Id of the
\* squashed commits; after a service error, a blank first line or a
\* missing token the combined message is used; and the land returns the
\* error, deletes the branch and moves the refs as the land without LLM.
C24_DraftUsedOnlyIfValid ==
    DraftedLand =>
        /\ last.res.from \in {"llm", "combined"}
        /\ last.res.from = "llm" =>
              /\ ~last.env.llm.err /\ HasSubject(last.env.llm.lines)
              /\ \A t \in ValidTokens : Mentions(last.env.llm.lines, t)
              /\ last.res.squashed =>
                    MessageLines(Last(repo.refs[Current])) = last.env.llm.lines
        /\ last.res.from = "combined" =>
              (last.res.squashed => IsCombinedMessage(MessageLines(Last(repo.refs[Current]))))
        /\ (\/ last.env.llm.err
            \/ ~HasSubject(last.env.llm.lines)
            \/ \E t \in ValidTokens : ~Mentions(last.env.llm.lines, t))
              => last.res.from = "combined"
        /\ last.res.err = PlainLand.err
        /\ last.res.deleted = PlainLand.deleted /\ last.res.squashed = PlainLand.squashed
        /\ \A n \in RefNames :
              /\ Len(repo.refs[n]) = Len(PlainLand.R.refs[n])
              /\ BranchExists(repo, n) => TreeOf(repo.refs[n]) = TreeOf(PlainLand.R.refs[n])

C24_Witness ==
    /\ DraftedLand /\ last.res.from = "llm" /\ last.res.squashed /\ last.res.deleted
    /\ ValidTokens = {"I1"}
    /\ MessageLines(Last(repo.refs[Main])) =
          <<Line("Unified change", NoValue), ChangeIdLine("I1")>>

C24_WitnessDiscarded ==
    /\ DraftedLand /\ last.res.from = "combined" /\ last.res.squashed /\ last.res.deleted
    /\ ~last.env.llm.err /\ HasSubject(last.env.llm.lines)
    /\ ValidTokens = {"I1"} /\ ~Mentions(last.env.llm.lines, "I1")

\* Names of branches as a user may type them: with and without "sketch/",
\* "sketch" with nothing after it, "sketch/" with an empty name, another
\* case, a longer first component, "sketch" further down the name.
TypedNames ==
    {<<"a">>, <<"sketch", "a">>, <<"b">>, <<"sketch", "b">>, <<"sketch">>, <<"sketch", "">>,
     <<"Sketch", "a">>, <<"sketchy", "a">>, <<"a", "sketch">>, <<"sketch", "sketch", "a">>,
     <<"sketch", "a", "b">>}

\* The name, as text, starts with "sketch/".
StartsWithSketch(name) == name[1] = "sketch" /\ Len(name) > 1

\* What the last call returned is what the command returns for the name.
LandAs(name) ==
    /\ LandReport(landBranch(last.pre, name, last.opts, last.env)) = last.res
    /\ landBranch(last.pre, name, last.opts, last.env).R = repo

DropAs(name) ==
    /\ DropReport(dropBranch(last.pre, name, last.opts.DryRun)) = last.res
    /\ dropBranch(last.pre, name, last.opts.DryRun).R = repo

UpdateAs(name) ==
    /\ UpdateReport(updateBranch(last.pre, name, last.opts.DryRun, last.env)) = last.res
    /\ updateBranch(last.pre, name, last.opts.DryRun, last.env).R = repo

\* C25: the normalisation returns a name that starts with "sketch/" as it
\* is and any other name with "sketch/" before it; normalising twice is
\* normalising once; and land, drop and update do the same, to the same
\* branch sketch/a, whether they are given "a" or "sketch/a".
C25_NormalisedNames ==
    /\ \A name \in TypedNames :
          /\ normalizeSketchBranch(name) =
                IF StartsWithSketch(name) THEN name ELSE <<"sketch">> \o name
          /\ normalizeSketchBranch(normalizeSketchBranch(name)) = normalizeSketchBranch(name)
    /\ last.op \in {"land", "drop", "update"} => last.res.branch = <<"sketch", "a">>
    /\ last.op = "land" => LandAs(<<"a">>) /\ LandAs(<<"sketch", "a">>)
    /\ last.op = "drop" => DropAs(<<"a">>) /\ DropAs(<<"sketch", "a">>)
    /\ last.op = "update" => UpdateAs(<<"a">>) /\ UpdateAs(<<"sketch", "a">>)

C25_Witness ==
    /\ last.op = "land" /\ last.res.deleted /\ last.res.picked # <<>>
    /\ last.res.branch = normalizeSketchBranch(<<"a">>)
    /\ ~BranchExists(repo, <<"sketch", "a">>)
    /\ LandAs(<<"a">>)

\* The last call was a land whose analysis walked the commits the filter
\* kept, merging each one.
Walked == Analysed /\ last.env.mergeTree /\ last.res.filtered # <<>>

\* The commits the walk went over, as the analysis got them.
WalkCommits ==
    [i \in 1..Len(last.res.filtered) |-> getCommitInfo(CommitAt(last.res.filtered[i]))]

\* How many iterations the walk made: up to the conflict, if there is one.
WalkSteps ==
    IF last.res.conflict = <<>> THEN Len(last.res.filtered)
    ELSE CHOOSE i \in 1..Len(last.res.filtered) : last.res.filtered[i] = last.res.conflict[1]

\* The valid commits among the first i the walk went over.
AcceptedBy(i) ==
    SelectSeq(last.res.valid, LAMBDA p : \E k \in 1..i : last.res.filtered[k] = p)

\* The base after n accepted commits as stated: main, then for every
\* accepted commit a commit of the merge result on top of the base before.
RECURSIVE SyntheticBase(_)
SyntheticBase(n) ==
    IF n = 0 THEN MainBefore
    ELSE Append(SyntheticBase(n - 1),
                Commit(Merge3(ParentTree(CommitAt(last.res.valid[n])),
                              TreeOf(SyntheticBase(n - 1)),
                              TreeOf(CommitAt(last.res.valid[n]))).tree, "temp", <<>>))

\* The same, where the accepted commit itself is the base when commit-tree
\* failed.
RECURSIVE WalkBase(_)
WalkBase(n) ==
    IF n = 0 THEN MainBefore
    ELSE IF ~last.env.commitTree THEN CommitAt(last.res.valid[n])
    ELSE Append(WalkBase(n - 1),
                Commit(Merge3(ParentTree(CommitAt(last.res.valid[n])),
                              TreeOf(WalkBase(n - 1)),
                              TreeOf(CommitAt(last.res.valid[n]))).tree, "temp", <<>>))

\* The walk, taken up at iteration i with the base B and the commits
\* accepted so far, ends as the analysis ended.
ResumesAt(i, B) ==
    LET rest == analyzeLoop(last.pre, WalkCommits, i, B,
                            [k \in 1..Len(AcceptedBy(i - 1)) |->
                                getCommitInfo(CommitAt(AcceptedBy(i - 1)[k]))],
                            last.env)
    IN  /\ Positions(rest.ValidCommits) = last.res.valid
        /\ Positions(rest.FirstConflict) = last.res.conflict

\* Iteration i of the walk, with Base(n) the base after n accepted
\* commits: the commit is merged into the accumulated base; a failed
\* merge is the conflict, a merge that gives the tree of the base skips
\* the commit, any other merge accepts it.
WalkStep(i, Base(_)) ==
    LET B == Base(Len(AcceptedBy(i - 1)))
        c == CommitAt(last.res.filtered[i])
        m == Merge3(ParentTree(c), TreeOf(B), TreeOf(c))
    IN  /\ ResumesAt(i, B)
        /\ ~m.ok <=> last.res.conflict = <<last.res.filtered[i]>>
        /\ (m.ok /\ m.tree = TreeOf(B)) =>
              /\ last.res.filtered[i] \notin Range(last.res.valid)
              /\ AcceptedBy(i) = AcceptedBy(i - 1)
        /\ (m.ok /\ m.tree # TreeOf(B)) =>
              /\ AcceptedBy(i) = Append(AcceptedBy(i - 1), last.res.filtered[i])
              /\ Base(Len(AcceptedBy(i))) =
                    IF GitCommitTree(last.pre, m.tree, B, last.env).ok
                    THEN GitCommitTree(last.pre, m.tree, B, last.env).hash
                    ELSE c
              /\ last.env.commitTree =>
                    /\ TreeOf(Base(Len(AcceptedBy(i)))) = m.tree
                    /\ Front(Base(Len(AcceptedBy(i)))) = B

\* C26 as stated: every commit of the walk is merged into main plus the
\* merges of the commits accepted before it; every accepted commit moves
\* the base to a commit of the merge result whose parent is the base.
C26_BaseIsAlwaysSynthetic ==
    Walked => \A i \in 1..WalkSteps : WalkStep(i, SyntheticBase)

\* C26: every commit of the walk is merged into the accumulated base, not
\* into main: a merge that gives the tree of the base skips the commit and
\* leaves the base, any other clean merge accepts the commit and moves
\* the base to a commit of the merge result whose parent is the base
\* before; when commit-tree fails, the base is the accepted commit itself.
C26_WalkOnAccumulatedBase ==
    Walked => \A i \in 1..WalkSteps : WalkStep(i, WalkBase)

C26_Witness ==
    /\ Walked /\ last.env.commitTree
    /\ Len(last.res.filtered) = 2 /\ last.res.valid = last.res.filtered
    /\ ~Merge3(ParentTree(CommitAt(last.res.filtered[2])), TreeOf(MainBefore),
               TreeOf(CommitAt(last.res.filtered[2]))).ok
    /\ TreeOf(WalkBase(1)) # TreeOf(MainBefore)

\* The branch the last call was about existed before the call and does
\* not exist after it.
SourceGone == BranchExists(last.pre, last.res.branch) /\ ~BranchExists(repo, last.res.branch)

\* Every valid commit was cherry-picked onto the checked-out branch, and
\* squashed into one commit when -squash is given for more than one.
AllPickedAndSquashed ==
    /\ last.res.valid # <<>> /\ last.res.picked = last.res.valid /\ last.res.failedAt = 0
    /\ IsPrefix(CurrentBefore, repo.refs[Current])
    /\ IF last.opts.Squash /\ Len(last.res.valid) > 1
       THEN last.res.squashed /\ Len(repo.refs[Current]) = Len(CurrentBefore) + 1
       ELSE /\ Len(repo.refs[Current]) = Len(CurrentBefore) + Len(last.res.valid)
            /\ \A k \in 1..Len(last.res.valid) :
                  repo.refs[Current][Len(CurrentBefore) + k].subj =
                      Last(CommitAt(last.res.valid[k])).subj

\* C27: a land deletes the source branch only in a real run whose
\* analysis found no conflict, and then either no commit was valid or
\* every valid commit was cherry-picked and, with -squash for more than
\* one, the squash commit made; a land that returns an error for a branch
\* that exists leaves the branch in existence, at its commit unless it is
\* the branch that is checked out.
C27_DeletedOnlyAfterSuccess ==
    last.op = "land" =>
        /\ SourceGone <=> last.res.deleted
        /\ SourceGone =>
              /\ last.res.err = "" /\ ~last.opts.DryRun
              /\ last.res.outcome \in {"delete-only", "land"} /\ last.res.conflict = <<>>
              /\ last.res.valid = <<>> \/ AllPickedAndSquashed
        /\ (last.res.err # "" /\ BranchExists(last.pre, last.res.branch)) =>
              /\ BranchExists(repo, last.res.branch)
              /\ Current # last.res.branch =>
                    repo.refs[last.res.branch] = last.pre.refs[last.res.branch]

C27_Witness ==
    /\ last.op = "land" /\ SourceGone
    /\ last.opts.Squash /\ Len(last.res.valid) = 2 /\ last.res.squashed

C27_WitnessKept ==
    /\ last.op = "land" /\ last.res.err = "failed to squash commits"
    /\ BranchExists(repo, last.res.branch)

\* The repository R with a third branch, at the commit of main, checked
\* out.
ElsewhereAtMain(R) == [R EXCEPT !.refs = (SketchB :> R.refs[Main]) @@ R.refs, !.HEAD = SketchB]

\* Main in the repository after is main before with the commits picked
\* (one commit, if they were squashed) on top.
LandedOnMain(before, after, picked, squashed) ==
    /\ IsPrefix(before.refs[Main], after.refs[Main])
    /\ Len(after.refs[Main]) =
          Len(before.refs[Main]) + (IF squashed THEN 1 ELSE Len(picked))

\* A real land that returned no error and picked commits put them on main.
PickedOntoMain ==
    (last.op = "land" /\ ~last.opts.DryRun /\ last.res.err = "" /\ last.res.picked # <<>>)
        => LandedOnMain(last.pre, repo, last.res.picked, last.res.squashed)

\* The land of sketch/a with -force, run on a third branch, if it returns
\* no error and picked commits, put them on main.
ForcedOntoMain(opts, res) ==
    (res.err = "" /\ res.picked # <<>>)
        => LandedOnMain(ElsewhereAtMain(repo), res.R, res.picked, res.squashed)

\* C28: a real land that returns no error and cherry-picked commits has
\* put them on top of main, the ref the analysis used as its base, with
\* any options, -force on a branch that is not main included.
C28_PicksLandOnMain ==
    /\ PickedOntoMain
    /\ (AtPrompt /\ Clean(repo) /\ BranchExists(repo, SketchA)) =>
          \A squash \in BOOLEAN :
              ForcedOntoMain([NoOptions EXCEPT !.Force = TRUE, !.Squash = squash],
                             landBranch(ElsewhereAtMain(repo), <<"a">>,
                                        [NoOptions EXCEPT !.Force = TRUE, !.Squash = squash],
                                        DefaultEnv))

\* The analysis of the commits of the last land without a source branch,
\* as update validates them: the tokens of the whole history of main.
UnscopedAnalysis ==
    analyzeCommits(last.pre, getCommitsInBranch(last.pre, last.res.branch).commits,
                   Main, <<>>, last.env)

\* C29: the analysis a land made, with the token scan restricted to the
\* window of the source branch, has the valid commits and the conflict of
\* the analysis of the same commits without a source branch.
C29_WindowChangesNothing ==
    Analysed =>
        /\ Positions(UnscopedAnalysis.ValidCommits) = last.res.valid
        /\ Positions(UnscopedAnalysis.FirstConflict) = last.res.conflict

\* The last call listed the sketch branch while main was checked out.
ListedOnMain ==
    /\ last.op = "list" /\ last.res.outcome = "list"
    /\ BranchExists(last.pre, SketchA) /\ last.pre.HEAD = Main

\* The real land of the sketch branch in the repository the list found.
LandAfterList(squash) ==
    landBranch(last.pre, SketchA, [NoOptions EXCEPT !.Squash = squash], last.env)

\* The land added nothing to main.
MainKept(res) == res.picked = <<>> /\ res.R.refs[Main] = last.pre.refs[Main]

\* C30 as stated: the status is CONFLICT exactly when the land stops at a
\* conflict, CLEAN exactly when the land cherry-picks at least one
\* commit; after LANDED the land adds no commit and deletes the branch,
\* after EMPTY it adds no commit to main.
C30_StatusIsWhatLandDoes ==
    ListedOnMain => \A squash \in BOOLEAN :
        /\ ListedStatus = "CONFLICT" <=> LandAfterList(squash).outcome = "conflict"
        /\ ListedStatus = "CLEAN" <=> LandAfterList(squash).picked # <<>>
        /\ ListedStatus = "LANDED" =>
              MainKept(LandAfterList(squash)) /\ LandAfterList(squash).deleted
        /\ ListedStatus = "EMPTY" => MainKept(LandAfterList(squash))

\* C30: the status is CONFLICT exactly when the land stops at a conflict
\* its analysis found, and CLEAN exactly when the analysis of the land
\* leaves valid commits and the land sets out to cherry-pick them; the
\* first of them is then picked if merge-tree is available, and no commit
\* is picked unless the status is CLEAN.  After LANDED the land adds no
\* commit and deletes the branch; after EMPTY it adds no commit to main.
C30_StatusIsWhatLandPlans ==
    ListedOnMain => \A squash \in BOOLEAN :
        /\ ListedStatus \in {"CONFLICT", "CLEAN", "LANDED", "EMPTY"}
        /\ ListedStatus = "CONFLICT" <=>
              /\ LandAfterList(squash).outcome = "conflict"
              /\ LandAfterList(squash).err = "validation failed"
        /\ ListedStatus = "CONFLICT" => LandAfterList(squash).R = last.pre
        /\ ListedStatus = "CLEAN" <=>
              /\ LandAfterList(squash).outcome = "land"
              /\ LandAfterList(squash).valid # <<>>
        /\ (ListedStatus = "CLEAN" /\ last.env.mergeTree) =>
              LandAfterList(squash).picked # <<>>
        /\ LandAfterList(squash).picked # <<>> => ListedStatus = "CLEAN"
        /\ ListedStatus = "LANDED" =>
              /\ MainKept(LandAfterList(squash))
              /\ LandAfterList(squash).err = "" /\ LandAfterList(squash).deleted
              /\ ~BranchExists(LandAfterList(squash).R, SketchA)
        /\ ListedStatus = "EMPTY" => MainKept(LandAfterList(squash))

C30_Witness ==
    /\ ListedOnMain /\ ListedStatus = "CLEAN" /\ last.env.mergeTree
    /\ Len(LandAfterList(FALSE).picked) = 2
    /\ LandAfterList(FALSE).deleted

C30_WitnessConflict ==
    /\ ListedOnMain /\ ListedStatus = "CONFLICT"
    /\ LandAfterList(FALSE).outcome = "conflict"

C30_WitnessLanded ==
    /\ ListedOnMain /\ ListedStatus = "LANDED" /\ LandAfterList(TRUE).deleted

\* The last call was an update that found commits on the branch.
UpdateOfCommits == last.op = "update" /\ last.res.commits # <<>>

\* C31: an update of a branch with commits validates them with the
\* analysis against main that has no source branch; when that analysis
\* records a conflict the update returns an error and the repository is
\* as it was: no checkout was made and no rebase started.
C31_UpdateValidatesFirst ==
    UpdateOfCommits =>
        /\ Positions(UnscopedAnalysis.filtered) = last.res.filtered
        /\ Positions(UnscopedAnalysis.ValidCommits) = last.res.valid
        /\ (UnscopedAnalysis.FirstConflict # NoConflict) <=> (last.res.outcome = "conflict")
        /\ last.res.outcome = "conflict" =>
              /\ last.res.err = "rebase validation failed" /\ ~last.res.rebased
              /\ repo = last.pre

C31_Witness ==
    /\ UpdateOfCommits /\ ~last.opts.DryRun /\ last.res.outcome = "conflict"
    /\ Len(last.res.commits) = 2 /\ Len(last.res.valid) = 1
    /\ repo.HEAD = Main /\ repo.markers = {}

\* The last call was a real update whose validation of the commits of the
\* branch recorded no conflict.
ValidatedUpdate ==
    /\ UpdateOfCommits /\ ~last.opts.DryRun
    /\ last.res.outcome = "update"

\* C32: an update whose validation recorded no conflict rebases the
\* branch: no commit of the branch, those the Change-Id filter dropped
\* included, fails to apply in the rebase.
C32_ValidatedRebaseSucceeds ==
    ValidatedUpdate => last.res.err # "rebase failed" /\ last.res.rebased


\* ---------------------------------------------------------------------------
\* C33
\* ---------------------------------------------------------------------------

\* A cherry-pick that git stopped is in progress in the repository.
PickStopped == "CHERRY_PICK_HEAD" \in repo.markers

\* This step starts an invocation of palimp.
Invoked == AtPrompt /\ last'.op \in {"land", "update", "drop", "list"}

C33_WitnessEmptyPick ==
    /\ last.op = "land" /\ last.opts.Force
    /\ last.pre.markers = {"CHERRY_PICK_HEAD"} /\ last.pre.wt = "clean"
    /\ last.res.err = "repository has ongoing git operation"
    /\ repo = last.pre


\* ---------------------------------------------------------------------------
\* C34
\* ---------------------------------------------------------------------------

\* The commits the land put on main are new commits: a squash commit, or
\* commits picked onto another parent than that of the commit they copy (a
\* commit picked onto its own parent differs from the original by the
\* committer's timestamp only).
NewOnMain ==
    last.res.squashed \/ ~IsPrefix(last.pre.refs[Main], last.pre.refs[last.res.branch])

\* A real land without -llm, run on main, that returned no error and
\* cherry-picked commits.
LandedWell ==
    /\ last.op = "land" /\ ~last.opts.DryRun /\ ~last.opts.UseLLM
    /\ last.pre.HEAD = Main /\ last.res.err = "" /\ last.res.picked # <<>>
    /\ NewOnMain

\* The commits of the branch as the land found them, and those it landed.
BranchCommits == getCommitsInBranch(last.pre, last.res.branch).commits

LandedCommits ==
    LET landed(c) == \E i \in 1..Len(last.res.picked) : last.res.picked[i] = Len(c.Hash)
    IN  SelectSeq(BranchCommits, landed)

\* The repository after the land, with the branch back at the commits it held.
BranchAgain == [repo EXCEPT !.refs[last.res.branch] = last.pre.refs[last.res.branch]]

\* The analysis of that branch against main, as land and list make it.
AnalysedAgain(env) ==
    analyzeCommits(BranchAgain, getCommitsInBranch(BranchAgain, last.res.branch).commits,
                   Main, last.res.branch, env)

\* Every commit the land found on the branch carries a Change-Id.
AllCarryToken == \A i \in 1..Len(BranchCommits) : BranchCommits[i].ChangeIDs # <<>>

\* The Change-Id tokens of the landed commits are among the tokens of main.
TokensOnMain ==
    \A i \in 1..Len(LandedCommits) :
        Range(LandedCommits[i].ChangeIDs)
            \subseteq getChangeIDsInRef(BranchAgain, Main, last.res.branch).ids

\* Analysing the branch again finds nothing to land, and landing it again
\* adds nothing to main.
NothingLeft ==
    \A env \in GitEnvs :
        /\ AnalysedAgain(env).ValidCommits = <<>>
        /\ AnalysedAgain(env).FirstConflict = NoConflict
        /\ getRebaseLandStatus(BranchAgain, last.res.branch, env).status = "LANDED"
        /\ \A squash \in BOOLEAN :
              landBranch(BranchAgain, last.res.branch,
                         [NoOptions EXCEPT !.Squash = squash], env).R.refs[Main]
                  = repo.refs[Main]

C34_WitnessPicked ==
    /\ LandedWell /\ AllCarryToken /\ ~last.res.squashed
    /\ Len(last.pre.refs[Main]) = 2 /\ Len(LandedCommits) = 1
    /\ LandedCommits[1].ChangeIDs = <<"I1">> /\ NothingLeft


\* ---------------------------------------------------------------------------
\* C35
\* ---------------------------------------------------------------------------

\* A land that passed its checks and found no commit on the branch that
\* main does not have.
LandOfNothing ==
    /\ last.op = "land"
    /\ last.opts.Force \/ checkMainBranch(last.pre) = ""
    /\ checkRepoState(last.pre) = ""
    /\ BranchExists(last.pre, last.res.branch)
    /\ getCommitsInBranch(last.pre, last.res.branch).err = ""
    /\ getCommitsInBranch(last.pre, last.res.branch).commits = <<>>

\* C35: a land of a branch without commits relative to main reports the
\* no-op and returns no error, in a dry run and in a real run; it makes no
\* analysis, plans and picks nothing, does not delete the branch, and leaves
\* refs, HEAD, markers and working tree as they were.
C35_EmptyBranchIsNoOp ==
    LandOfNothing =>
        /\ last.res.outcome = "noop" /\ last.res.err = ""
        /\ last.res.filtered = <<>> /\ last.res.valid = <<>> /\ last.res.conflict = <<>>
        /\ last.res.plan = NoPlan /\ last.res.picked = <<>>
        /\ ~last.res.squashed /\ ~last.res.deleted
        /\ BranchExists(repo, last.res.branch)
        /\ repo = last.pre

\* A real land of a branch that sits on an ancestor of main's tip.
C35_Witness ==
    /\ LandOfNothing /\ ~last.opts.DryRun /\ last.res.outcome = "noop"
    /\ Len(last.pre.refs[last.res.branch]) < Len(last.pre.refs[Main])
    /\ repo = last.pre

\* The same in a dry run.
C35_WitnessDryRun ==
    LandOfNothing /\ last.opts.DryRun /\ last.res.outcome = "noop" /\ repo = last.pre


\* ---------------------------------------------------------------------------
\* C36
\* ---------------------------------------------------------------------------
\* ------------------------------------------------ analyzeCommits on its own
\* The most commits main has after the root commit, and the most commits
\* the sketch branch has after it and a caller hands to analyzeCommits.
MaxAhead == 1

MaxList == 2

\* Histories of branch b that start at h and go on with up to n commits
\* made by hand.
RECURSIVE Grown(_, _, _)
Grown(b, h, n) ==
    IF n = 0 THEN {h}
    ELSE {h} \cup UNION {Grown(b, Append(h, Commit([TreeOf(h) EXCEPT ![ch.file] = ch.val],
                                                    ch.subj, body)), n - 1) :
                            <<ch, body>> \in {x \in ChangesOn(b) \X Bodies :
                                                 TreeOf(h)[x[1].file] # x[1].val}}

\* Repositories with main and the sketch branch some commits after the root
\* commit, on either of which HEAD may be.
AnalyzeRepos ==
    {[refs |-> [n \in RefNames |-> IF n = Main THEN m ELSE s],
      HEAD |-> h, markers |-> {}, wt |-> "clean"] :
        <<m, s, h>> \in Grown(Main, <<RootCommit>>, MaxAhead)
                           \X Grown(SketchA, <<RootCommit>>, MaxList) \X RefNames}

\* A commit that is not in the repository, as a caller may hand it in.
MissingCommit == [Hash |-> <<>>, Subject |-> "Valid commit", ChangeIDs |-> <<"I2">>]

\* The commits handed to analyzeCommits: those of the sketch branch, the
\* root commit (which has no parent) among them, and the missing one.
AnalyzeCommitLists(R) ==
    LET cs == {MissingCommit}
              \cup {getCommitInfo(SubSeq(R.refs[SketchA], 1, k)) : k \in 1..Len(R.refs[SketchA])}
    IN  UNION {[1..n -> cs] : n \in 0..MaxList}

AnalyzeInit ==
    /\ repo \in AnalyzeRepos
    /\ made = 0
    /\ last \in [op : {"input"}, commits : AnalyzeCommitLists(repo),
                 mainRef : {Main, <<"HEAD">>, <<"gone">>}, sourceBranch : {SketchA, <<>>},
                 env : GitEnvs, res : {NoAnalysis(repo)}]

AnalyzeCommits ==
    /\ last.op = "input"
    /\ last' = [last EXCEPT !.op = "analyzeCommits",
                            !.res = analyzeCommits(repo, last.commits, last.mainRef,
                                                   last.sourceBranch, last.env)]
    /\ UNCHANGED <<repo, made>>

SpecAnalyze == AnalyzeInit /\ [][AnalyzeCommits]_vars

\* The token lookup of the call, and the list the walk goes through.
TokenLookup == getChangeIDsInRef(repo, last.mainRef, last.sourceBranch)

AfterFilter == filterNewCommits(last.commits, TokenLookup.ids)

\* merge-tree fails for the commit whatever the base: it does not exist or
\* has no parent.
Unmergeable(c) == ~IsCommit(c.Hash) \/ ~HasParent(c.Hash)

\* The walk stopped at position k of the list: the commit there is the
\* recorded conflict, and every valid commit comes before it.
StoppedAt(k) ==
    /\ last.res.FirstConflict = <<AfterFilter[k]>>
    /\ last.res.ConflictError # <<>> /\ last.res.ConflictError[1].pos = k
    /\ \E S \in SUBSET (1..(k - 1)) :
          last.res.ValidCommits = [j \in 1..Cardinality(S) |->
              AfterFilter[CHOOSE i \in S : Cardinality({x \in S : x < i}) = j - 1]]

\* C36: analyzeCommits returns an error exactly when the token lookup on
\* mainRef fails; an empty list gives no valid commit and no conflict; when
\* merge-tree fails for a commit (content conflict on the first commit, a
\* commit that does not exist or has no parent anywhere in the list, a
\* tree-less answer) the call still returns an analysis, that commit or one
\* before it is the recorded conflict, and the walk stopped there.
C36_MergeFailureIsConflict ==
    last.op = "analyzeCommits" =>
        /\ (last.res.err # "") <=> (TokenLookup.err # "")
        /\ last.res.R = repo
        /\ last.res.err = "" =>
              /\ last.commits = <<>> =>
                    last.res.ValidCommits = <<>> /\ last.res.FirstConflict = NoConflict
              /\ last.res.FirstConflict # NoConflict =>
                    \E k \in 1..Len(AfterFilter) : StoppedAt(k)
              /\ (last.env.mergeTree /\ AfterFilter # <<>>) =>
                    /\ ~GitMergeTree(repo, AfterFilter[1].Hash, Resolve(repo, last.mainRef)).ok
                          => StoppedAt(1)
                    /\ \A i \in 1..Len(AfterFilter) :
                          Unmergeable(AfterFilter[i]) => \E k \in 1..i : StoppedAt(k)
                    /\ analyzeMerged(AfterFilter, 1, Resolve(repo, last.mainRef), <<>>, last.env,
                                     [R |-> repo, ok |-> TRUE, tree |-> NoOutput]).FirstConflict
                          = <<AfterFilter[1]>>

\* A commit that is in the repository was found valid and the missing commit
\* after it is the recorded conflict.
C36_Witness ==
    /\ last.op = "analyzeCommits" /\ last.res.err = "" /\ last.mainRef = <<"HEAD">>
    /\ Len(last.res.ValidCommits) = 1 /\ last.res.FirstConflict = <<MissingCommit>>
    /\ StoppedAt(2)

\* The root commit, which has no parent, is the recorded conflict.
C36_WitnessNoParent ==
    /\ last.op = "analyzeCommits" /\ last.res.err = ""
    /\ last.res.FirstConflict # NoConflict /\ Len(last.res.FirstConflict[1].Hash) = 1

\* A content conflict is the recorded conflict.
C36_WitnessContent ==
    /\ last.op = "analyzeCommits" /\ last.res.err = ""
    /\ last.res.FirstConflict # NoConflict /\ ~Unmergeable(last.res.FirstConflict[1])

\* The token lookup failed.
C36_WitnessError == last.op = "analyzeCommits" /\ last.res.err # ""


\* ---------------------------------------------------------------------------
\* C37
\* ---------------------------------------------------------------------------
\* ------------------------------------- createCombinedCommitMessage on its own
\* The orders in which a range over the map of change-ids may yield its keys.
MapOrders == {<<"I1", "I2">>, <<"I2", "I1">>}

\* The commits of a squash: up to MaxList commits, each with no, one or two
\* change-ids; the message is built twice, each time with a range over a map
\* of its own.
CombineInit ==
    /\ repo = InitialRepo
    /\ made = 0
    /\ last \in [op : {"input"},
                 commits : UNION {[1..n -> {[Hash |-> <<RootCommit, Commit(EmptyTree, s, <<>>)>>,
                                             Subject |-> s, ChangeIDs |-> ids] :
                                               s \in {"set f to 1", "set g to 1"},
                                               ids \in {<<>>, <<"I1">>, <<"I2">>, <<"I1", "I2">>}}] :
                                     n \in 0..MaxList},
                 first : MapOrders, second : MapOrders,
                 preview : {<<>>}, message : {<<>>}]

CreateCombinedCommitMessage ==
    /\ last.op = "input"
    /\ last' = [last EXCEPT !.op = "createCombinedCommitMessage",
                            !.preview = createCombinedCommitMessage(last.commits, last.first),
                            !.message = createCombinedCommitMessage(last.commits, last.second)]
    /\ UNCHANGED <<repo, made>>

SpecCombine == CombineInit /\ [][CreateCombinedCommitMessage]_vars

\* C37: two calls of createCombinedCommitMessage with the same ordered
\* commits return the same lines in the same order, so that the message a
\* dry run previews is the message the real run commits.
C37_SameMessageTwice ==
    last.op = "createCombinedCommitMessage" => last.preview = last.message

\* The two messages have the same lines, in whatever order.
C37_SameLines ==
    last.op = "createCombinedCommitMessage" => Range(last.preview) = Range(last.message)

\* With at most one change-id among the commits the two messages are equal.
C37_OneTokenSameMessage ==
    (last.op = "createCombinedCommitMessage"
        /\ Cardinality(Range(AllChangeIDs(last.commits))) <= 1)
            => last.preview = last.message


\* ---------------------------------------------------------------------------
\* C38
\* ---------------------------------------------------------------------------

\* The names a user may type, those of the main branch among them.
SuppliedNames == TypedNames \cup {<<"main">>, <<"master">>}

\* The branches that exist in repository A and no longer in B.
DeletedBetween(A, B) == {n \in DOMAIN A.refs : BranchExists(A, n) /\ ~BranchExists(B, n)}

\* The branches whose history in B is not its history in A with, at most,
\* commits added: they were rebased, reset or deleted.
RewrittenBetween(A, B) ==
    {n \in DOMAIN A.refs : BranchExists(A, n) /\ ~IsPrefix(A.refs[n], B.refs[n])}

\* A command given some name in repository A worked on branch b and left
\* repository B: b is in the sketch/ namespace, and no branch but b was
\* deleted or rewritten, so the main branch is still there with its history.
OnlySketchTouched(A, b, B) ==
    /\ StartsWithSketch(b)
    /\ DeletedBetween(A, B) \subseteq {b}
    /\ RewrittenBetween(A, B) \subseteq {b}
    /\ BranchExists(A, Main) => BranchExists(B, Main) /\ IsPrefix(A.refs[Main], B.refs[Main])

\* C38: land, drop and update, whatever name they are given (a bare name, a
\* name under sketch/, the name of the main branch), delete, check out for
\* the rebase and rebase only the branch of the normalised name, which
\* starts with sketch/; the main branch is never deleted and never loses a
\* commit.
C38_OnlySketchBranches ==
    /\ last.op \in {"land", "drop", "update"} =>
          OnlySketchTouched(last.pre, last.res.branch, repo)
    /\ AtPrompt => \A name \in SuppliedNames :
          /\ \A opts \in LandOptions : \A env \in GitEnvs :
                OnlySketchTouched(repo, landBranch(repo, name, opts, env).branch,
                                  landBranch(repo, name, opts, env).R)
          /\ OnlySketchTouched(repo, dropBranch(repo, name, FALSE).branch,
                               dropBranch(repo, name, FALSE).R)
          /\ \A env \in GitEnvs :
                OnlySketchTouched(repo, updateBranch(repo, name, FALSE, env).branch,
                                  updateBranch(repo, name, FALSE, env).R)

\* An update rebased sketch/a, which now has another history, and main is
\* as it was; a drop of the name main in the repository before it asks for
\* sketch/main, which does not exist.
C38_Witness ==
    /\ last.op = "update" /\ last.res.rebased /\ StartsWithSketch(last.res.branch)
    /\ RewrittenBetween(last.pre, repo) = {last.res.branch}
    /\ repo.refs[Main] = last.pre.refs[Main]
    /\ dropBranch(last.pre, <<"main">>, FALSE).branch = <<"sketch", "main">>
    /\ dropBranch(last.pre, <<"main">>, FALSE).err = "branch does not exist"

\* A drop deleted sketch/a while it was not checked out.
C38_WitnessDeleted ==
    /\ last.op = "drop" /\ last.res.deleted
    /\ DeletedBetween(last.pre, repo) = {<<"sketch", "a">>}


\* ---------------------------------------------------------------------------
\* C39
\* ---------------------------------------------------------------------------
\* --------------------------------------- two invocations on one repository
\* landBranch up to the analysis, on R: no check refused the land and there
\* are commits to analyse.
landPasses(R, branchName, opts, env) ==
    /\ opts.Force \/ checkMainBranch(R) = ""
    /\ checkRepoState(R) = ""
    /\ BranchExists(R, branchName)
    /\ getCommitsInBranch(R, branchName).err = ""
    /\ Len(getCommitsInBranch(R, branchName).commits) > 0
    /\ findMainBranch(R).err = ""

\* A land that checks the state of the repository again before it acts.
landResumedRechecking(R, branchName, opts, env, commits, analysis) ==
    IF checkRepoState(R) # "" \/ ~BranchExists(R, branchName) \/ R # analysis.R
    THEN [LandResult(R, branchName) EXCEPT !.err = "repository changed"]
    ELSE landCommits(R, branchName, opts, env, commits, [analysis EXCEPT !.R = R])

\* landBranch from the analysis on, in the repository R as it is by then:
\* the commits and the analysis are those it computed earlier, and its git
\* commands (cherry-pick, reset, commit, branch -D) run on R.
landResumed(R, branchName, opts, env, commits, analysis) ==
    landCommits(R, branchName, opts, env, commits, [analysis EXCEPT !.R = R])

\* The first invocation is `palimp land a`, with or without -squash; it is
\* about to start in a clean repository with main checked out.
RaceInit ==
    /\ repo \in {r \in AnalyzeRepos : r.HEAD = Main}
    /\ made = 0
    /\ last \in [op : {"race"}, pc : {"start"}, opts : {o \in LandOptions : ~o.DryRun /\ ~o.Force /\ ~o.UseLLM},
                 env : GitEnvs, pre : {repo}, commits : {<<>>}, analysis : {NoAnalysis(repo)},
                 other : {"none"}, otherAt : {"none"}, acted : {repo}, res : {NoReport}]

\* The first invocation runs its checks, reads the commits of the branch and
\* analyses them; it returns at once when a check refuses or nothing is there.
FirstChecks ==
    /\ last.op = "race" /\ last.pc = "start"
    /\ IF landPasses(repo, SketchA, last.opts, last.env)
       THEN /\ last' = [last EXCEPT
                           !.pc = "analysed", !.pre = repo,
                           !.commits = getCommitsInBranch(repo, SketchA).commits,
                           !.analysis = analyzeCommits(repo, getCommitsInBranch(repo, SketchA).commits,
                                                       findMainBranch(repo).branch, SketchA, last.env)]
            /\ repo' = repo
       ELSE /\ last' = [last EXCEPT
                           !.pc = "done", !.pre = repo, !.acted = repo,
                           !.res = LandReport(landBranch(repo, <<"a">>, last.opts, last.env))]
            /\ repo' = landBranch(repo, <<"a">>, last.opts, last.env).R
    /\ UNCHANGED made

\* Another invocation (land, drop or update of the same branch) runs from
\* start to end, whatever the first one is doing: nothing makes it wait.
\* Its runs that stop in the middle of a cherry-pick are left out.
Second ==
    /\ last.op = "race" /\ last.other = "none"
    /\ \E other \in {"land", "drop", "update"}, env \in GitEnvs :
          LET R == IF other = "land" THEN landBranch(repo, <<"a">>, NoOptions, env).R
                   ELSE IF other = "drop" THEN dropBranch(repo, <<"a">>, FALSE).R
                   ELSE updateBranch(repo, <<"a">>, FALSE, env).R
          IN  /\ Clean(R)
              /\ repo' = R
              /\ last' = [last EXCEPT !.other = other, !.otherAt = last.pc]
    /\ UNCHANGED made

\* The first invocation goes on after its analysis: cherry-picks, squash,
\* deletion of the branch, on the repository as it is now.
FirstActs ==
    /\ last.op = "race" /\ last.pc = "analysed"
    /\ repo' = landResumed(repo, SketchA, last.opts, last.env, last.commits, last.analysis).R
    /\ last' = [last EXCEPT
                   !.pc = "done", !.acted = repo,
                   !.res = LandReport(landResumed(repo, SketchA, last.opts, last.env,
                                                  last.commits, last.analysis))]
    /\ UNCHANGED made

SpecRace == RaceInit /\ [][FirstChecks \/ Second \/ FirstActs]_vars

\* The first invocation has finished, and between its analysis and its git
\* commands the other invocation changed the repository it had checked.
Raced ==
    /\ last.op = "race" /\ last.pc = "done"
    /\ last.otherAt = "analysed" /\ last.acted # last.pre

\* C39: nothing makes an invocation wait for another or look again: when
\* another invocation changed the repository between the checks and the
\* analysis of a land and its git commands, the land is not refused; with
\* valid commits in its analysis it runs its cherry-picks (the first one at
\* least) on the changed repository, and with none it runs the deletion of
\* the branch.
C39_ActsOnWhatItChecked ==
    (Raced /\ last.analysis.FirstConflict = NoConflict) =>
        /\ last.res.outcome \in {"land", "delete-only"}
        /\ last.analysis.ValidCommits # <<>> =>
              last.res.picked # <<>> \/ last.res.failedAt = 1
        /\ last.analysis.ValidCommits = <<>> =>
              last.res.deleted \/ last.res.err = "branch not found"

\* The other invocation landed the branch: main moved and the branch is
\* gone; the first invocation still ran its first cherry-pick, which
\* stopped and left the repository in the middle of it.
C39_Witness ==
    /\ Raced /\ last.other = "land"
    /\ last.acted.refs[Main] # last.pre.refs[Main]
    /\ ~BranchExists(last.acted, SketchA)
    /\ last.res.failedAt = 1 /\ "CHERRY_PICK_HEAD" \in repo.markers

\* The other invocation dropped the branch; the first one still put its
\* commits on main.
C39_WitnessDropped ==
    /\ Raced /\ last.other = "drop" /\ ~BranchExists(last.acted, SketchA)
    /\ last.res.picked # <<>> /\ Len(repo.refs[Main]) > Len(last.pre.refs[Main])
    /\ last.res.err = "branch not found"

\* The other invocation rebased the branch; the first one picked the old
\* commits and deleted the rebased branch.
C39_WitnessRebased ==
    /\ Raced /\ last.other = "update"
    /\ last.acted.refs[SketchA] # last.pre.refs[SketchA]
    /\ last.res.picked # <<>> /\ last.res.deleted

====
